---- MODULE Spec2Model ----
(***************************************************************************)
(* Process executor of ARIA (aria/orchestrator/workflows/executor/         *)
(* process.py) with the change-tracking instrumentation of                  *)
(* aria/storage/instrumentation.py.                                         *)
(*                                                                          *)
(* Actors: the thread that owns the executor (constructor, submit, close), *)
(* the listener thread, and one worker process per submitted task.         *)
(***************************************************************************)
EXTENDS Integers, Sequences, FiniteSets, TLC

----------------------------------------------------------------------------
(* Bounds *)

\* number of operations (loads, assignments, new instances, commits) the
\* task bodies perform, all tasks together
MaxBodySteps == 3
\* number of close() calls made on the executor
MaxCloseCalls == 2
\* the version up to which another user of the storage advances a node
MaxVersion == 2
\* number of values a byte of a frame takes
ByteValues == 2
\* number of messages sent by messengers that are no worker of a registered
\* task
MaxStray == 1

\* the tasks submitted to the executor: two, so that the diff of one worker
\* can meet a store the other worker has changed
Tasks == {1, 2}

\* task_id of the executor's own messenger (None in the source)
NoTask == 0

\* values a task body assigns to node.state
StateVals == {"a", "b"}

\* the value of node.state before any task ran
InitialState == "init"

\* the _STUB object of the instrumentation ("initial value not known"), as it
\* compares with a state and with a version: equal to none of them
STUB == "_STUB"
VersionStub == -1

\* node.state of a node object the worker has not loaded
NotLoaded == "not_loaded"

\* what a task's serialized context looks like to its worker
\*   "ok"       : deserializes, and holds a model storage
\*   "bad_ctx"  : deserialize_from_dict raises
\*   "no_model" : deserializes, but ctx.model is None
Kinds == {"ok", "bad_ctx", "no_model"}

----------------------------------------------------------------------------
VARIABLES
    mainPc,           \* position of the thread that owns the executor
    listenerStarted,  \* the _listener_started queue holds an item
    stopped,          \* ProcessExecutor._stopped
    tasks,            \* keys of ProcessExecutor._tasks
    sockOpen,         \* _server_socket is open (listening)
    backlog,          \* connections made to the server socket, not accepted yet
    listenerPc,       \* position of the listener thread
    cur,              \* request read from the connection being handled
    resp,             \* per client: the response frame it is waiting for
    status,           \* per task: status recorded by the workflow engine
    taskExc,          \* per task: exception recorded with a failed status
    store,            \* the authoritative model storage
    kind,             \* per task: what its context looks like (input)
    wpc,              \* per task: position of its worker process
    wtc,              \* per task: instrument.tracked_changes of its worker
    wni,              \* per task: the new instances its worker tracks (the
                      \* dict the listener fills, instrument.new_instances)
    wsteps,           \* body operations performed so far, all tasks together
    closeCalls,       \* close() calls made so far
    sentLog,          \* per task: types of the messages its worker sent
    recvLog,          \* per task: types of the messages the listener dispatched
    flushFailed,      \* per task: the apply of one of its flushes failed
    caught,           \* per task: its body handled an exception of a commit
    rejected,         \* tasks whose _execute raised 'Executor closed'
    replayed,         \* the initial storage with every applied diff put on it
    conn,             \* one connection carrying a frame, and its reader
    wsess,            \* per task: new instances attached to its session
    wmem,             \* per task: node.state of each node object in its worker
    worph,            \* per task: session instances its expunge queue lost
    wlisteners,       \* per task: the listeners of its instrument are installed
    strayWait,        \* task id named by the pending message of a foreign messenger
    straySent         \* number of messages foreign messengers have sent

vars == <<mainPc, listenerStarted, stopped, tasks, sockOpen, backlog,
          listenerPc, cur, resp, status, taskExc, store, kind, wpc, wtc, wni,
          wsteps, closeCalls, sentLog, recvLog, flushFailed, caught, rejected,
          replayed, conn, wsess, wmem, worph, wlisteners, strayWait,
          straySent>>

----------------------------------------------------------------------------
(* Tracked changes, new instances and the authoritative store *)

\* tracked_attributes[name] = _Value(initial, current)
Value(initial, current) ==
    [tracked |-> TRUE, initial |-> initial, current |-> current]

\* name not in tracked_attributes
AbsentState == [tracked |-> FALSE, initial |-> STUB, current |-> STUB]
AbsentVersion ==
    [tracked |-> FALSE, initial |-> VersionStub, current |-> VersionStub]

\* instrument.tracked_changes right after construction or clear(): {}
NoChanges == <<>>

\* id of the node the task bodies of both tasks work on
NodeId == 1
\* the nodes of the storage
Nodes == {1, 2}
\* the instrumented collection of a node and the children appended to it
AttrNames == {"x", "y"}

\* tracked_changes is a dict model name -> entity id -> attribute -> _Value
\* (or list), here the sequence of its models in iteration order, each with
\* the sequence of its entities in iteration order. `state` is the
\* instrumented scalar column (Node.state, Task.status), `attributes` the list
\* of the children appended to Node.attributes (empty: key absent).
Inst(id, ver, st, attrs) ==
    [id |-> id, version |-> ver, state |-> st, attributes |-> attrs]

\* setdefault(target.id, {}) on an entity not tracked yet
NoInst(id) == Inst(id, AbsentVersion, AbsentState, <<>>)

ModelEntry(model, instances) == [model |-> model, instances |-> instances]

\* position of model m in tracked_changes, 0 when it is not a key
ModelIdx(tc, m) ==
    IF \E i \in 1..Len(tc) : tc[i].model = m
    THEN CHOOSE i \in 1..Len(tc) : tc[i].model = m
    ELSE 0

\* position of entity id among the tracked instances of a model
InstIdx(instances, id) ==
    IF \E j \in 1..Len(instances) : instances[j].id = id
    THEN CHOOSE j \in 1..Len(instances) : instances[j].id = id
    ELSE 0

\* tracked_changes.setdefault(m, {}).setdefault(id, {}) as the listeners read
\* it
TrackedOf(tc, m, id) ==
    LET i == ModelIdx(tc, m)
        j == IF i = 0 THEN 0 ELSE InstIdx(tc[i].instances, id)
    IN  IF j = 0 THEN NoInst(id) ELSE tc[i].instances[j]

\* a new key of a dict lands anywhere in its iteration order
Insert(seq, x) == {Append(seq, x), <<x>> \o seq}

\* the tracked_changes a listener leaves after it stored inst for model m
PutTracked(tc, m, inst) ==
    LET i == ModelIdx(tc, m)
    IN  IF i = 0 THEN Insert(tc, ModelEntry(m, <<inst>>))
        ELSE LET j == InstIdx(tc[i].instances, inst.id)
             IN  IF j = 0
                 THEN {[tc EXCEPT ![i].instances = is] :
                          is \in Insert(tc[i].instances, inst)}
                 ELSE {[tc EXCEPT ![i].instances[j] = inst]}

\* clear() called without a target
NoTarget == 0

\* the instances of a model without the entry of entity id
RECURSIVE Popped(_, _)
Popped(instances, id) ==
    IF instances = <<>> THEN <<>>
    ELSE IF Head(instances).id = id THEN Popped(Tail(instances), id)
    ELSE <<Head(instances)>> \o Popped(Tail(instances), id)

\* a clear() that leaves tracked_changes as it finds it
ClearKeeps(tc, m, id) == {tc}

\* clear(target), lines 202-208: the tracked_changes it leaves. Without a
\* target the dict is emptied; with one, the entry of the target is popped
\* from the instances of its model (setdefault makes the model a key)
Clear(tc, m, id) ==
    IF id = NoTarget THEN {NoChanges}
    ELSE LET i == ModelIdx(tc, m)
         IN  IF i = 0 THEN Insert(tc, ModelEntry(m, <<>>))
             ELSE {[tc EXCEPT ![i].instances = Popped(@, id)]}

\* instrument.new_instances right after construction or clear(): no Log
NoInstances == 0

\* a row of the node and of the task table
Row(st, ver, attrs) == [state |-> st, version |-> ver, attributes |-> attrs]

\* the storage before any task ran: the nodes, the tasks, and no Log row
InitialStore ==
    [node |-> [n \in Nodes |-> Row(InitialState, 1, <<>>)],
     task |-> [t \in Tasks |-> Row(InitialState, 1, <<>>)],
     logs |-> 0]

\* one step of apply_tracked_changes as an observer of the storage sees it:
\* put (mapi.put), get (mapi.get), assign (setattr), insert (into a
\* collection; attr names the child), update (mapi.update)
Ev(op, mapi, id, attr) ==
    [op |-> op, mapi |-> mapi, id |-> id, attr |-> attr, model |-> mapi]

\* events, each marked with the model of tracked_changes it was made for
Tagged(events, m) == [i \in 1..Len(events) |-> [events[i] EXCEPT !.model = m]]

\* outcome of apply_tracked_changes: the storage it leaves, what it raised,
\* and the steps it made
Applied(st, error, events) ==
    [store |-> st, ok |-> error = "none", error |-> error, events |-> events]

\* _validate_version_id: the committed state holds a version only when the
\* applier assigned the attribute; a committed version that is set and differs
\* from the object's is a conflict
ValidateVersionId(row, pending, versionSet) ==
    LET version_id == IF versionSet THEN row.version ELSE 0
    IN  ~(version_id # 0 /\ pending.version # version_id)

\* mapi.update(instance): the children put in the collection are inserted; an
\* UPDATE of the row is issued when a column changed, and it advances the
\* version column
Update(row, pending) ==
    IF pending.state # row.state
    THEN [pending EXCEPT !.version = row.version + 1]
    ELSE [row EXCEPT !.attributes = pending.attributes]

\* an applier that assigns every tracked scalar
AssignedAlways(value) == value.tracked

\* line 284: a scalar is assigned when its initial differs from its current
Assigned(value) == value.tracked /\ value.initial # value.current

\* an applier that walks the list of a collection from its end
ItemsReversed(value) == [i \in 1..Len(value) |-> value[Len(value) + 1 - i]]

\* line 279, `for item in value`: the items of the list in its order
Items(value) == value

\* the body of the loop over the tracked instances (lines 273-289) for one
\* entity; mapi is the model api the loop variable names when the loop is
\* entered
ApplyInstance(st, entry, mapi) ==
    LET id == entry.id
        versionSet == Assigned(entry.version)
        stateSet == Assigned(entry.state)
        get == <<Ev("get", mapi, id, "")>>
        assigns ==
            (IF versionSet THEN <<Ev("assign", mapi, id, "version")>> ELSE <<>>)
            \o (IF stateSet THEN <<Ev("assign", mapi, id, "state")>> ELSE <<>>)
        items == Items(entry.attributes)
        inserts == [i \in 1..Len(items) |-> Ev("insert", mapi, id, items[i])]
        update == <<Ev("update", mapi, id, "")>>
    IN  IF ~entry.version.tracked /\ ~entry.state.tracked
           /\ entry.attributes = <<>>
        THEN Applied(st, "none", <<>>)
        ELSE IF mapi = "log"
        THEN \* mapi.get(instance_id) on the Log table; a scalar assigned to
             \* a Log touches no column of the tracked entity, and a Log has
             \* no collection of that name
             IF id > st.logs THEN Applied(st, "not_found", <<>>)
             ELSE IF entry.attributes # <<>>
             THEN Applied(st, "attribute_error", get \o assigns)
             ELSE Applied(st, "none", get \o assigns \o update)
        ELSE LET row == st[mapi][id]
                 p1 == IF versionSet
                       THEN [row EXCEPT !.version = entry.version.current]
                       ELSE row
                 p2 == IF stateSet
                       THEN [p1 EXCEPT !.state = entry.state.current] ELSE p1
                 pending == [p2 EXCEPT !.attributes = @ \o items]
             IN  IF ValidateVersionId(row, pending, versionSet)
                 THEN Applied([st EXCEPT ![mapi][id] = Update(row, pending)],
                              "none", get \o assigns \o inserts \o update)
                 ELSE Applied(st, "version_conflict",
                              get \o assigns \o inserts)

\* the loop over the tracked instances of one model (line 272)
RECURSIVE ApplyInstances(_, _, _)
ApplyInstances(st, instances, mapi) ==
    IF instances = <<>> THEN Applied(st, "none", <<>>)
    ELSE LET r == ApplyInstance(st, Head(instances), mapi)
         IN  IF r.ok
             THEN LET rest == ApplyInstances(r.store, Tail(instances), mapi)
                  IN  [rest EXCEPT !.events = r.events \o @]
             ELSE r

\* the outer loop of apply_tracked_changes (lines 258-289): for every model
\* of tracked_changes, first every new instance is constructed and put, then
\* the tracked instances are updated through the mapi the loop variable names
\* at that point. instantiated: new_instances already holds instances in
\* place of the field maps (line 270), so constructing them again raises.
RECURSIVE ApplyLoop(_, _, _, _)
\* an applier that updates the tracked instances of a model first and puts
\* the new instances after them
ApplyLoopPutsLast(st, tracked_changes, new_instances, instantiated) ==
    IF tracked_changes = <<>> THEN Applied(st, "none", <<>>)
    ELSE IF new_instances > 0 /\ instantiated
    THEN Applied(st, "type_error", <<>>)
    ELSE LET entry == Head(tracked_changes)
             st1 == [st EXCEPT !.logs = @ + new_instances]
             puts == [i \in 1..new_instances |->
                         Ev("put", "log", st.logs + i, "")]
             mapi == IF new_instances > 0 THEN "log" ELSE entry.model
             r0 == ApplyInstances(st1, entry.instances, mapi)
             r == [r0 EXCEPT !.events = Tagged(@, entry.model)]
             rest == ApplyLoop(r.store, Tail(tracked_changes), new_instances,
                               TRUE)
         IN  IF r.ok
             THEN [rest EXCEPT !.events = r.events \o puts \o @]
             ELSE [r EXCEPT !.events = @ \o puts]

ApplyLoop(st, tracked_changes, new_instances, instantiated) ==
    IF tracked_changes = <<>> THEN Applied(st, "none", <<>>)
    ELSE IF new_instances > 0 /\ instantiated
    THEN Applied(st, "type_error", <<>>)
    ELSE LET entry == Head(tracked_changes)
             st1 == [st EXCEPT !.logs = @ + new_instances]
             puts == [i \in 1..new_instances |->
                         Ev("put", "log", st.logs + i, "")]
             mapi == IF new_instances > 0 THEN "log" ELSE entry.model
             r0 == ApplyInstances(st1, entry.instances, mapi)
             r == [r0 EXCEPT !.events = Tagged(@, entry.model)]
             rest == ApplyLoop(r.store, Tail(tracked_changes), new_instances,
                               TRUE)
         IN  IF r.ok
             THEN [rest EXCEPT !.events = puts \o r.events \o @]
             ELSE [r EXCEPT !.events = puts \o @]

\* instrumentation.apply_tracked_changes(tracked_changes, new_instances, model)
ApplyTrackedChanges(tracked_changes, new_instances, st) ==
    ApplyLoop(st, tracked_changes, new_instances, FALSE)

----------------------------------------------------------------------------
(* Messages *)

Clients == Tasks \cup {NoTask}

\* the request frame _Messenger._send_message builds (lines 306-313)
Request(type, task_id, tracked_changes, new_instances, exception) ==
    [type |-> type, task_id |-> task_id, tracked_changes |-> tracked_changes,
     new_instances |-> new_instances, exception |-> exception]

NoRequest == Request("none", NoTask, NoChanges, NoInstances, "none")

\* what ProcessExecutor._task_failed is given
Failure(exception, cause, traceback) ==
    [exception |-> exception, cause |-> cause, traceback |-> traceback]

NoFailure == Failure("none", "none", "none")

\* _INT_SIZE = struct.calcsize('I'): bytes of the length prefix of a frame
INT_SIZE == 4

\* struct.pack(_INT_FMT, n): the INT_SIZE bytes of n, lowest first (the two
\* ends of a connection run on one machine and agree on the order)
RECURSIVE Digits(_, _)
Digits(n, size) ==
    IF size = 0 THEN <<>>
    ELSE <<n % ByteValues>> \o Digits(n \div ByteValues, size - 1)

Pack(n) == Digits(n, INT_SIZE)

\* struct.unpack(_INT_FMT, bytes)[0]
RECURSIVE Unpack(_)
Unpack(bytes) ==
    IF bytes = <<>> THEN 0
    ELSE Head(bytes) + ByteValues * Unpack(Tail(bytes))

\* the messages put on a connection: the executor's own `closed` (no task
\* id), a message with an empty diff, one with a tracked change and one with
\* a new instance
FrameMessages ==
    {Request("closed", NoTask, NoChanges, NoInstances, "none"),
     Request("started", 1, NoChanges, NoInstances, "none"),
     Request("succeeded", 1,
             <<ModelEntry("node", <<Inst(NodeId, AbsentVersion,
                                         Value(STUB, "a"), <<>>)>>)>>,
             NoInstances, "none"),
     Request("failed", 2, NoChanges, 1, "error")}

\* jsonpickle.dumps(message): the text of a message. Messages have different
\* texts, and no text is the beginning of another one (each is one closed
\* JSON object)
Dumps(message) ==
    CASE message.type = "closed" -> <<0>>
      [] message.type = "started" -> <<1, 0>>
      [] message.type = "succeeded" -> <<1, 1, 0>>
      [] OTHER -> <<1, 1, 1>>

\* what _recv_message returns or raises
Received(error, message) == [error |-> error, message |-> message]

\* jsonpickle.loads(text): the message of that text; a ValueError for
\* anything that is not the text of a message
Loads(text) ==
    IF \E m \in FrameMessages : Dumps(m) = text
    THEN Received("none", CHOOSE m \in FrameMessages : Dumps(m) = text)
    ELSE Received("value_error", NoRequest)

\* a connection on which `message` is about to be written by _send_message
\* and read by _recv_message, which has entered _recv_bytes(conn, _INT_SIZE).
\* wire: bytes written and not received yet; sent: all bytes written so far;
\* eof: the writing end is closed; count, result: the locals of _recv_bytes;
\* prefix, payload: what the two calls of _recv_bytes returned
NewConn(message) ==
    [message |-> message, wpos |-> "start", wire |-> <<>>, sent |-> <<>>,
     eof |-> FALSE, rpc |-> "len", count |-> INT_SIZE, result |-> <<>>,
     prefix |-> <<>>, payload |-> <<>>,
     out |-> Received("pending", NoRequest)]

\* no connection is looked at byte by byte
NoConn == [NewConn(NoRequest) EXCEPT !.wpos = "none", !.rpc = "none"]

----------------------------------------------------------------------------
\* the executor after the first statements of __init__, with no task yet
InitExecutor ==
    /\ mainPc = "ctor"
    /\ listenerStarted = FALSE
    /\ stopped = FALSE
    /\ tasks = {}
    /\ sockOpen = TRUE
    /\ backlog = <<>>
    /\ listenerPc = "init"
    /\ cur = NoRequest
    /\ resp = [c \in Clients |-> "none"]
    /\ status = [t \in Tasks |-> "none"]
    /\ taskExc = [t \in Tasks |-> NoFailure]
    /\ store = InitialStore
    /\ kind = [t \in Tasks |-> "ok"]
    /\ wpc = [t \in Tasks |-> "none"]
    /\ wtc = [t \in Tasks |-> NoChanges]
    /\ wni = [t \in Tasks |-> NoInstances]
    /\ wsteps = 0
    /\ closeCalls = 0
    /\ sentLog = [t \in Tasks |-> <<>>]
    /\ recvLog = [t \in Tasks |-> <<>>]
    /\ flushFailed = [t \in Tasks |-> FALSE]
    /\ caught = [t \in Tasks |-> FALSE]
    /\ rejected = {}
    /\ replayed = InitialStore
    /\ wsess = [t \in Tasks |-> 0]
    /\ wmem = [t \in Tasks |-> [n \in Nodes |-> NotLoaded]]
    /\ worph = [t \in Tasks |-> 0]
    /\ wlisteners = [t \in Tasks |-> FALSE]
    /\ strayWait = NoTask
    /\ straySent = 0

Init ==
    /\ InitExecutor
    /\ conn = NoConn

----------------------------------------------------------------------------
(* The thread that owns the executor *)

\* a constructor that does not wait for the listener's startup signal
CtorReturnNoWait ==
    /\ mainPc = "ctor"
    /\ mainPc' = "ready"
    /\ listenerStarted' = FALSE
    /\ UNCHANGED <<stopped, tasks, sockOpen, backlog, listenerPc, cur, resp,
                   status, taskExc, store, kind, wpc, wtc, wni, wsteps,
                   closeCalls, sentLog, recvLog, flushFailed, caught,
                   rejected, replayed, conn, wsess, wmem, worph, wlisteners,
                   strayWait, straySent>>

\* __init__, line 107: self._listener_started.get(timeout=60) takes the
\* item the listener thread put, and the constructor returns
CtorReturn ==
    /\ mainPc = "ctor"
    /\ listenerStarted
    /\ mainPc' = "ready"
    /\ listenerStarted' = FALSE
    /\ UNCHANGED <<stopped, tasks, sockOpen, backlog, listenerPc, cur, resp,
                   status, taskExc, store, kind, wpc, wtc, wni, wsteps,
                   closeCalls, sentLog, recvLog, flushFailed, caught,
                   rejected, replayed, conn, wsess, wmem, worph, wlisteners,
                   strayWait, straySent>>

\* tasks are submitted in the order of their ids
NextTask(t) ==
    status[t] = "none" /\ \A u \in Tasks : u < t => status[u] # "none"

\* _execute on an open executor: register the task, write the arguments file
\* and spawn the worker (on a stopped executor _check_closed raises first)
Execute(t, k) ==
    /\ mainPc = "ready"
    /\ ~stopped
    /\ NextTask(t)
    /\ tasks' = tasks \cup {t}
    /\ status' = [status EXCEPT ![t] = "submitted"]
    /\ kind' = [kind EXCEPT ![t] = k]
    /\ wpc' = [wpc EXCEPT ![t] = "spawned"]
    /\ UNCHANGED <<mainPc, listenerStarted, stopped, sockOpen, backlog,
                   listenerPc, cur, resp, taskExc, store, wtc, wni, wsteps,
                   closeCalls, sentLog, recvLog, flushFailed, caught,
                   rejected, replayed, conn, wsess, wmem, worph, wlisteners,
                   strayWait, straySent>>

\* _execute when subprocess.Popen raises: the task is registered, no worker
\* exists
ExecuteSpawnFails(t) ==
    /\ mainPc = "ready"
    /\ ~stopped
    /\ NextTask(t)
    /\ tasks' = tasks \cup {t}
    /\ status' = [status EXCEPT ![t] = "submitted"]
    /\ UNCHANGED <<mainPc, listenerStarted, stopped, sockOpen, backlog,
                   listenerPc, cur, resp, taskExc, store, kind, wpc, wtc, wni,
                   wsteps, closeCalls, sentLog, recvLog, flushFailed, caught,
                   rejected, replayed, conn, wsess, wmem, worph, wlisteners,
                   strayWait, straySent>>

\* _execute that registers the task before it looks at the _stopped flag
ExecuteClosedRegisters(t) ==
    /\ mainPc = "ready"
    /\ stopped
    /\ NextTask(t)
    /\ t \notin rejected
    /\ rejected' = rejected \cup {t}
    /\ tasks' = tasks \cup {t}
    /\ UNCHANGED <<mainPc, listenerStarted, stopped, sockOpen, backlog,
                   listenerPc, cur, resp, status, taskExc, store, kind, wpc,
                   wtc, wni, wsteps, closeCalls, sentLog, recvLog,
                   flushFailed, caught, replayed, conn, wsess, wmem, worph,
                   wlisteners, strayWait, straySent>>

\* _execute on a stopped executor: _check_closed raises 'Executor closed' in
\* the first statement (lines 120, 139-141), before the task is registered,
\* the arguments file written or the worker spawned; the caller sees the error
ExecuteClosed(t) ==
    /\ mainPc = "ready"
    /\ stopped
    /\ NextTask(t)
    /\ t \notin rejected
    /\ rejected' = rejected \cup {t}
    /\ UNCHANGED <<mainPc, listenerStarted, stopped, tasks, sockOpen, backlog,
                   listenerPc, cur, resp, status, taskExc, store, kind, wpc,
                   wtc, wni, wsteps, closeCalls, sentLog, recvLog,
                   flushFailed, caught, replayed, conn, wsess, wmem, worph,
                   wlisteners, strayWait, straySent>>

\* close(), lines 110-112, on an open executor
CloseSetStopped ==
    /\ mainPc = "ready"
    /\ ~stopped
    /\ closeCalls < MaxCloseCalls
    /\ stopped' = TRUE
    /\ closeCalls' = closeCalls + 1
    /\ mainPc' = "close_send"
    /\ UNCHANGED <<listenerStarted, tasks, sockOpen, backlog, listenerPc, cur,
                   resp, status, taskExc, store, kind, wpc, wtc, wni, wsteps,
                   sentLog, recvLog, flushFailed, caught, rejected, replayed,
                   conn, wsess, wmem, worph, wlisteners, strayWait,
                   straySent>>

\* close(), line 115: self._messenger.closed() connects and sends its frame
CloseSendClosed ==
    /\ mainPc = "close_send"
    /\ backlog' = Append(backlog, Request("closed", NoTask, NoChanges,
                                          NoInstances, "none"))
    /\ mainPc' = "close_wait"
    /\ UNCHANGED <<listenerStarted, stopped, tasks, sockOpen, listenerPc, cur,
                   resp, status, taskExc, store, kind, wpc, wtc, wni, wsteps,
                   closeCalls, sentLog, recvLog, flushFailed, caught,
                   rejected, replayed, conn, wsess, wmem, worph, wlisteners,
                   strayWait, straySent>>

\* close(), lines 115-116: the response to `closed` arrived; the server socket
\* is closed, which resets the connections still waiting in its backlog
CloseSocket ==
    /\ mainPc = "close_wait"
    /\ resp[NoTask] # "none"
    /\ sockOpen' = FALSE
    /\ resp' = [c \in Clients |->
                  IF c = NoTask THEN "none"
                  ELSE IF \E i \in 1..Len(backlog) : backlog[i].task_id = c
                       THEN "conn_error" ELSE resp[c]]
    /\ backlog' = <<>>
    /\ mainPc' = "close_join"
    /\ UNCHANGED <<listenerStarted, stopped, tasks, listenerPc, cur, status,
                   taskExc, store, kind, wpc, wtc, wni, wsteps, closeCalls,
                   sentLog, recvLog, flushFailed, caught, rejected, replayed,
                   conn, wsess, wmem, worph, wlisteners, strayWait,
                   straySent>>

\* close(), line 117: join(timeout=60) returns when the listener thread has
\* ended, and after 60 seconds when it has not
CloseJoin ==
    /\ mainPc = "close_join"
    /\ mainPc' = "ready"
    /\ UNCHANGED <<listenerStarted, stopped, tasks, sockOpen, backlog,
                   listenerPc, cur, resp, status, taskExc, store, kind, wpc,
                   wtc, wni, wsteps, closeCalls, sentLog, recvLog,
                   flushFailed, caught, rejected, replayed, conn, wsess, wmem,
                   worph, wlisteners, strayWait, straySent>>

\* close() without the test of _stopped: a later call closes again
CloseAgainNoGuard ==
    /\ mainPc = "ready"
    /\ stopped
    /\ closeCalls < MaxCloseCalls
    /\ closeCalls' = closeCalls + 1
    /\ mainPc' = "close_send"
    /\ UNCHANGED <<listenerStarted, stopped, tasks, sockOpen, backlog,
                   listenerPc, cur, resp, status, taskExc, store, kind, wpc,
                   wtc, wni, wsteps, sentLog, recvLog, flushFailed, caught,
                   rejected, replayed, conn, wsess, wmem, worph, wlisteners,
                   strayWait, straySent>>

\* close(), lines 110-111, on a stopped executor
CloseAgain ==
    /\ mainPc = "ready"
    /\ stopped
    /\ closeCalls < MaxCloseCalls
    /\ closeCalls' = closeCalls + 1
    /\ UNCHANGED <<mainPc, listenerStarted, stopped, tasks, sockOpen, backlog,
                   listenerPc, cur, resp, status, taskExc, store, kind, wpc,
                   wtc, wni, wsteps, sentLog, recvLog, flushFailed, caught,
                   rejected, replayed, conn, wsess, wmem, worph, wlisteners,
                   strayWait, straySent>>

----------------------------------------------------------------------------
(* The listener thread *)

\* _listener, line 168
ListenerStart ==
    /\ listenerPc = "init"
    /\ listenerStarted' = TRUE
    /\ listenerPc' = "loop"
    /\ UNCHANGED <<mainPc, stopped, tasks, sockOpen, backlog, cur, resp,
                   status, taskExc, store, kind, wpc, wtc, wni, wsteps,
                   closeCalls, sentLog, recvLog, flushFailed, caught,
                   rejected, replayed, conn, wsess, wmem, worph, wlisteners,
                   strayWait, straySent>>

\* _listener, line 169: `while not self._stopped`
ListenerCheck ==
    /\ listenerPc = "loop"
    /\ listenerPc' = IF stopped THEN "done" ELSE "accept"
    /\ UNCHANGED <<mainPc, listenerStarted, stopped, tasks, sockOpen, backlog,
                   cur, resp, status, taskExc, store, kind, wpc, wtc, wni,
                   wsteps, closeCalls, sentLog, recvLog, flushFailed, caught,
                   rejected, replayed, conn, wsess, wmem, worph, wlisteners,
                   strayWait, straySent>>

\* _accept_request, lines 185-187: accept the oldest connection and read its
\* request frame. The socket is open whenever the listener is here: close()
\* closes it only after the listener answered `closed` and left the loop.
ListenerAccept ==
    /\ listenerPc = "accept"
    /\ backlog # <<>>
    /\ cur' = Head(backlog)
    /\ backlog' = Tail(backlog)
    /\ listenerPc' = "handle"
    /\ UNCHANGED <<mainPc, listenerStarted, stopped, tasks, sockOpen, resp,
                   status, taskExc, store, kind, wpc, wtc, wni, wsteps,
                   closeCalls, sentLog, recvLog, flushFailed, caught,
                   rejected, replayed, conn, wsess, wmem, worph, wlisteners,
                   strayWait, straySent>>

\* BaseExecutor._task_started / _task_succeeded / _task_failed as the
\* workflow engine records them
TaskStarted(t) ==
    /\ status' = [status EXCEPT ![t] = "running"]
    /\ UNCHANGED taskExc

TaskSucceeded(t) ==
    /\ status' = [status EXCEPT ![t] = "succeeded"]
    /\ UNCHANGED taskExc

TaskFailed(t, failure) ==
    /\ status' = [status EXCEPT ![t] = "failed"]
    /\ taskExc' = [taskExc EXCEPT ![t] = failure]

\* the handler raised e: _accept_request puts it in the response (line 191)
\* and nothing else changes
HandlerRaises(e) ==
    /\ resp' = [resp EXCEPT ![cur.task_id] = e]
    /\ UNCHANGED <<tasks, status, taskExc, store>>

\* _handle_task_started_request that looks the task up and marks nothing
HandleTaskStartedRequestNoMark(t) ==
    IF t \notin tasks THEN HandlerRaises("key_error")
    ELSE /\ resp' = [resp EXCEPT ![t] = "ok"]
         /\ UNCHANGED <<tasks, store, status, taskExc>>

\* _handle_task_started_request
HandleTaskStartedRequest(t) ==
    IF t \notin tasks THEN HandlerRaises("key_error")
    ELSE /\ TaskStarted(t)
         /\ resp' = [resp EXCEPT ![t] = "ok"]
         /\ UNCHANGED <<tasks, store>>

\* _handle_task_succeeded_request that drops the error of the apply
HandleTaskSucceededRequestNoExcept(t) ==
    IF t \notin tasks THEN HandlerRaises("key_error")
    ELSE LET r == ApplyTrackedChanges(cur.tracked_changes, cur.new_instances,
                                      store)
         IN  /\ tasks' = tasks \ {t}
             /\ store' = r.store
             /\ TaskSucceeded(t)
             /\ resp' = [resp EXCEPT ![t] = "ok"]

\* _handle_task_succeeded_request
HandleTaskSucceededRequest(t) ==
    IF t \notin tasks THEN HandlerRaises("key_error")
    ELSE LET r == ApplyTrackedChanges(cur.tracked_changes, cur.new_instances,
                                      store)
         IN  /\ tasks' = tasks \ {t}
             /\ store' = r.store
             /\ IF r.ok THEN TaskSucceeded(t)
                ELSE TaskFailed(t, Failure(r.error, "none", "none"))
             /\ resp' = [resp EXCEPT ![t] = "ok"]

\* _handle_task_failed_request that takes the task with pop(task_id, None):
\* a task id that is not registered raises nothing
HandleTaskFailedRequestAnyTask(t) ==
    LET r == ApplyTrackedChanges(cur.tracked_changes, cur.new_instances,
                                 store)
    IN  /\ tasks' = tasks \ {t}
        /\ store' = r.store
        /\ IF r.ok
           THEN TaskFailed(t, Failure(cur.exception, "none", "worker"))
           ELSE TaskFailed(t, Failure(r.error, cur.exception, "apply"))
        /\ resp' = [resp EXCEPT ![t] = "ok"]

\* _handle_task_failed_request that does not apply the diff of the message
HandleTaskFailedRequestNoApply(t) ==
    IF t \notin tasks THEN HandlerRaises("key_error")
    ELSE /\ tasks' = tasks \ {t}
         /\ TaskFailed(t, Failure(cur.exception, "none", "worker"))
         /\ resp' = [resp EXCEPT ![t] = "ok"]
         /\ UNCHANGED store

\* _handle_task_failed_request
HandleTaskFailedRequest(t) ==
    IF t \notin tasks THEN HandlerRaises("key_error")
    ELSE LET r == ApplyTrackedChanges(cur.tracked_changes, cur.new_instances,
                                      store)
         IN  /\ tasks' = tasks \ {t}
             /\ store' = r.store
             /\ IF r.ok
                THEN TaskFailed(t, Failure(cur.exception, "none", "worker"))
                ELSE TaskFailed(t, Failure(r.error, cur.exception, "apply"))
             /\ resp' = [resp EXCEPT ![t] = "ok"]

\* _handle_apply_tracked_changes_request that takes the task with
\* _remove_task instead of looking it up
HandleApplyTrackedChangesRequestPop(t) ==
    IF t \notin tasks THEN HandlerRaises("key_error")
    ELSE LET r == ApplyTrackedChanges(cur.tracked_changes, cur.new_instances,
                                      store)
         IN  /\ tasks' = tasks \ {t}
             /\ store' = r.store
             /\ resp' = [resp EXCEPT ![t] = IF r.ok THEN "ok" ELSE r.error]
             /\ UNCHANGED <<status, taskExc>>

\* _handle_apply_tracked_changes_request
HandleApplyTrackedChangesRequest(t) ==
    IF t \notin tasks THEN HandlerRaises("key_error")
    ELSE LET r == ApplyTrackedChanges(cur.tracked_changes, cur.new_instances,
                                      store)
         IN  /\ store' = r.store
             /\ resp' = [resp EXCEPT ![t] = IF r.ok THEN "ok" ELSE r.error]
             /\ UNCHANGED <<tasks, status, taskExc>>

\* _listener that passes a request of unknown type on without raising
DispatchNoCheck ==
    CASE cur.type = "started" -> HandleTaskStartedRequest(cur.task_id)
      [] cur.type = "succeeded" -> HandleTaskSucceededRequest(cur.task_id)
      [] cur.type = "failed" -> HandleTaskFailedRequest(cur.task_id)
      [] cur.type = "apply_tracked_changes" ->
             HandleApplyTrackedChangesRequest(cur.task_id)
      [] OTHER -> /\ resp' = [resp EXCEPT ![cur.task_id] = "ok"]
                  /\ UNCHANGED <<tasks, status, taskExc, store>>

\* _listener, lines 172-179, and the response of _accept_request (line 194)
Dispatch ==
    CASE cur.type = "started" -> HandleTaskStartedRequest(cur.task_id)
      [] cur.type = "succeeded" -> HandleTaskSucceededRequest(cur.task_id)
      [] cur.type = "failed" -> HandleTaskFailedRequest(cur.task_id)
      [] cur.type = "apply_tracked_changes" ->
             HandleApplyTrackedChangesRequest(cur.task_id)
      [] OTHER -> HandlerRaises("invalid_request_type")

\* the request types whose handler calls _apply_tracked_changes
ApplyTypes == {"succeeded", "failed", "apply_tracked_changes"}

\* one request of a worker: dispatch it, respond, go back to the loop test
ListenerHandle ==
    /\ listenerPc = "handle"
    /\ cur.type # "closed"
    /\ Dispatch
    /\ recvLog' = [recvLog EXCEPT ![cur.task_id] = Append(@, cur.type)]
    /\ flushFailed' = [flushFailed EXCEPT ![cur.task_id] =
                          @ \/ (cur.type = "apply_tracked_changes"
                                /\ resp'[cur.task_id] # "ok")]
    /\ replayed' = IF cur.type \in ApplyTypes /\ cur.task_id \in tasks
                   THEN ApplyTrackedChanges(cur.tracked_changes,
                                            cur.new_instances, replayed).store
                   ELSE replayed
    /\ cur' = NoRequest
    /\ listenerPc' = "loop"
    /\ UNCHANGED <<mainPc, listenerStarted, stopped, sockOpen, backlog, kind,
                   wpc, wtc, wni, wsteps, closeCalls, sentLog, caught,
                   rejected, conn, wsess, wmem, worph, wlisteners, strayWait,
                   straySent>>

\* a listener that answers `closed` like any request and accepts the next
\* connection without a look at _stopped
ListenerClosedKeepsServing ==
    /\ listenerPc = "handle"
    /\ cur.type = "closed"
    /\ resp' = [resp EXCEPT ![cur.task_id] = "ok"]
    /\ cur' = NoRequest
    /\ listenerPc' = "accept"
    /\ UNCHANGED <<mainPc, listenerStarted, stopped, tasks, sockOpen, backlog,
                   status, taskExc, store, kind, wpc, wtc, wni, wsteps,
                   closeCalls, sentLog, recvLog, flushFailed, caught,
                   rejected, replayed, conn, wsess, wmem, worph, wlisteners,
                   strayWait, straySent>>

\* a `break` that leaves _accept_request without the `finally` that writes
\* the response
ListenerClosedNoResponse ==
    /\ listenerPc = "handle"
    /\ cur.type = "closed"
    /\ cur' = NoRequest
    /\ listenerPc' = "done"
    /\ UNCHANGED <<mainPc, listenerStarted, stopped, tasks, sockOpen, backlog,
                   resp, status, taskExc, store, kind, wpc, wtc, wni, wsteps,
                   closeCalls, sentLog, recvLog, flushFailed, caught,
                   rejected, replayed, conn, wsess, wmem, worph, wlisteners,
                   strayWait, straySent>>

\* the `closed` request: break out of the loop (line 174); the response is
\* written on the way out and the thread ends
ListenerClosed ==
    /\ listenerPc = "handle"
    /\ cur.type = "closed"
    /\ resp' = [resp EXCEPT ![cur.task_id] = "ok"]
    /\ cur' = NoRequest
    /\ listenerPc' = "done"
    /\ UNCHANGED <<mainPc, listenerStarted, stopped, tasks, sockOpen, backlog,
                   status, taskExc, store, kind, wpc, wtc, wni, wsteps,
                   closeCalls, sentLog, recvLog, flushFailed, caught,
                   rejected, replayed, conn, wsess, wmem, worph, wlisteners,
                   strayWait, straySent>>

----------------------------------------------------------------------------
(* The worker process of task t: _main *)

\* _Messenger._send_message, lines 303-313: connect to the executor's port
\* and send one request frame carrying the instrument's diff
Connect(t, type, exception) ==
    /\ backlog' = Append(backlog, Request(type, t, wtc[t], wni[t], exception))
    /\ sentLog' = [sentLog EXCEPT ![t] = Append(@, type)]

\* a `with` block that is left without restore(): the listeners stay
LeaveScopeNoRestore(t) ==
    /\ wsess' = [wsess EXCEPT ![t] = worph[t]]
    /\ UNCHANGED wlisteners

\* _main, lines 396-397, and _Instrumentation.__exit__: the `finally`
\* expunges from the session the instances of the expunge queue, then the
\* `with` block is left and restore() removes the listeners
LeaveScope(t) ==
    /\ wsess' = [wsess EXCEPT ![t] = worph[t]]
    /\ wlisteners' = [wlisteners EXCEPT ![t] = FALSE]

\* how _main is left: it returns ("exited"), or an exception leaves it
\* ("crashed")
Ended == {"exited", "crashed"}

\* _main, lines 392-397: an exception e reached the `except` of the worker:
\* send `failed`; when that send cannot connect either, its error leaves
\* _main through the `finally` and the `with` of the instrumentation (for
\* the `except` of the deserialization, line 378, there is none to leave)
SendFailed(t, e) ==
    IF sockOpen
    THEN /\ Connect(t, "failed", e)
         /\ wpc' = [wpc EXCEPT ![t] = "failed_wait"]
         /\ UNCHANGED <<wsess, wlisteners>>
    ELSE /\ wpc' = [wpc EXCEPT ![t] = "crashed"]
         /\ LeaveScope(t)
         /\ UNCHANGED <<backlog, sentLog>>

\* a send made inside the `try` of _main (started, succeeded): a connection
\* error is an exception like any other
SendInTry(t, type, waitPc) ==
    IF sockOpen
    THEN /\ Connect(t, type, "none")
         /\ wpc' = [wpc EXCEPT ![t] = waitPc]
         /\ UNCHANGED <<wsess, wlisteners>>
    ELSE SendFailed(t, "conn_error")

\* instrumentation.track_changes(ctx.model), line 381, raises StorageError
\* when there is no model storage (_register_new_instance_listener)
TrackChangesRaises(k) == k = "no_model"

\* _main that never sends `started` and goes straight to the task body
WorkerStartNoStarted(t) ==
    /\ wpc[t] = "spawned"
    /\ IF kind[t] = "bad_ctx"
       THEN SendFailed(t, "deserialization_error")
       ELSE IF TrackChangesRaises(kind[t])
       THEN /\ wpc' = [wpc EXCEPT ![t] = "crashed"]
            /\ UNCHANGED <<backlog, sentLog, wsess, wlisteners>>
       ELSE /\ wpc' = [wpc EXCEPT ![t] = "body"]
            /\ wlisteners' = [wlisteners EXCEPT ![t] = TRUE]
            /\ UNCHANGED <<backlog, sentLog, wsess>>
    /\ UNCHANGED <<mainPc, listenerStarted, stopped, tasks, sockOpen,
                   listenerPc, cur, resp, status, taskExc, store, kind, wtc,
                   wni, wsteps, closeCalls, recvLog, flushFailed, caught,
                   rejected, replayed, conn, wmem, worph, strayWait,
                   straySent>>

\* _main, lines 375-383, up to the first message of the worker
WorkerStart(t) ==
    /\ wpc[t] = "spawned"
    /\ IF kind[t] = "bad_ctx"
       THEN \* lines 377-379: failed(exception=e), then return
            SendFailed(t, "deserialization_error")
       ELSE IF TrackChangesRaises(kind[t])
       THEN \* the error leaves _main: no message at all
            /\ wpc' = [wpc EXCEPT ![t] = "crashed"]
            /\ UNCHANGED <<backlog, sentLog, wsess, wlisteners>>
       ELSE IF sockOpen
       THEN \* the listeners are installed, then `started` is sent
            /\ wlisteners' = [wlisteners EXCEPT ![t] = TRUE]
            /\ Connect(t, "started", "none")
            /\ wpc' = [wpc EXCEPT ![t] = "started_wait"]
            /\ UNCHANGED wsess
       ELSE \* installed, and removed when the error of the send leaves
            SendFailed(t, "conn_error")
    /\ UNCHANGED <<mainPc, listenerStarted, stopped, tasks, sockOpen,
                   listenerPc, cur, resp, status, taskExc, store, kind, wtc,
                   wni, wsteps, closeCalls, recvLog, flushFailed, caught,
                   rejected, replayed, conn, wmem, worph, strayWait,
                   straySent>>

\* the response to `started` (lines 314-317): go on to the task body, or
\* raise the exception of the response
WorkerStarted(t) ==
    /\ wpc[t] = "started_wait"
    /\ resp[t] # "none"
    /\ resp' = [resp EXCEPT ![t] = "none"]
    /\ IF resp[t] = "ok"
       THEN /\ wpc' = [wpc EXCEPT ![t] = "body"]
            /\ UNCHANGED <<backlog, sentLog, wsess, wlisteners>>
       ELSE SendFailed(t, resp[t])
    /\ UNCHANGED <<mainPc, listenerStarted, stopped, tasks, sockOpen,
                   listenerPc, cur, status, taskExc, store, kind, wtc, wni,
                   wsteps, closeCalls, recvLog, flushFailed, caught, rejected,
                   replayed, conn, wmem, worph, strayWait, straySent>>

InBody(t) == wpc[t] = "body" /\ wsteps < MaxBodySteps

\* a load listener that leaves the attribute as it was loaded from the
\* database
BodyLoadKeepsLoaded(t, n) ==
    /\ InBody(t)
    /\ LET old == TrackedOf(wtc[t], "node", n)
           ver == IF old.version.tracked THEN old.version
                  ELSE Value(VersionStub, store.node[n].version)
           st  == IF old.state.tracked THEN old.state
                  ELSE Value(store.node[n].state, store.node[n].state)
       IN  /\ \E tc \in PutTracked(wtc[t], "node",
                                   Inst(n, ver, st, old.attributes)) :
                  wtc' = [wtc EXCEPT ![t] = tc]
           /\ wmem' = [wmem EXCEPT ![t][n] = store.node[n].state]
    /\ wsteps' = wsteps + 1
    /\ UNCHANGED <<mainPc, listenerStarted, stopped, tasks, sockOpen, backlog,
                   listenerPc, cur, resp, status, taskExc, store, kind, wpc,
                   wni, closeCalls, sentLog, recvLog, flushFailed, caught,
                   rejected, replayed, conn, wsess, worph, wlisteners,
                   strayWait, straySent>>

\* the load / refresh listener (_register_instance_listeners): node n is
\* loaded from the database. The version and the state are captured unless
\* they are tracked already (lines 184-194), and the attribute of the object
\* is set to the tracked current value (line 195)
BodyLoad(t, n) ==
    /\ InBody(t)
    /\ LET old == TrackedOf(wtc[t], "node", n)
           ver == IF old.version.tracked THEN old.version
                  ELSE Value(VersionStub, store.node[n].version)
           st  == IF old.state.tracked THEN old.state
                  ELSE Value(store.node[n].state, store.node[n].state)
       IN  /\ \E tc \in PutTracked(wtc[t], "node",
                                   Inst(n, ver, st, old.attributes)) :
                  wtc' = [wtc EXCEPT ![t] = tc]
           /\ wmem' = [wmem EXCEPT ![t][n] = st.current]
    /\ wsteps' = wsteps + 1
    /\ UNCHANGED <<mainPc, listenerStarted, stopped, tasks, sockOpen, backlog,
                   listenerPc, cur, resp, status, taskExc, store, kind, wpc,
                   wni, closeCalls, sentLog, recvLog, flushFailed, caught,
                   rejected, replayed, conn, wsess, worph, wlisteners,
                   strayWait, straySent>>

\* a worker whose session writes node.state = v through to the storage
BodySetWritesStore(t, n, v) ==
    /\ InBody(t)
    /\ store' = [store EXCEPT !.node[n].state = v]
    /\ wmem' = [wmem EXCEPT ![t][n] = v]
    /\ wsteps' = wsteps + 1
    /\ UNCHANGED <<mainPc, listenerStarted, stopped, tasks, sockOpen, backlog,
                   listenerPc, cur, resp, status, taskExc, kind, wpc, wtc,
                   wni, closeCalls, sentLog, recvLog, flushFailed, caught,
                   rejected, replayed, conn, wsess, worph, wlisteners,
                   strayWait, straySent>>

\* a set listener that keeps the initial value of a Value tracked already
BodySetKeepsInitial(t, n, v) ==
    /\ InBody(t)
    /\ LET old == TrackedOf(wtc[t], "node", n)
       IN  \E tc \in PutTracked(wtc[t], "node",
                                [old EXCEPT !.state =
                                    Value(old.state.initial, v)]) :
               wtc' = [wtc EXCEPT ![t] = tc]
    /\ wmem' = [wmem EXCEPT ![t][n] = v]
    /\ wsteps' = wsteps + 1
    /\ UNCHANGED <<mainPc, listenerStarted, stopped, tasks, sockOpen, backlog,
                   listenerPc, cur, resp, status, taskExc, store, kind, wpc,
                   wni, closeCalls, sentLog, recvLog, flushFailed, caught,
                   rejected, replayed, conn, wsess, worph, wlisteners,
                   strayWait, straySent>>

\* the set listener (_register_set_attribute_listener): node.state = v on
\* node n
BodySet(t, n, v) ==
    /\ InBody(t)
    /\ LET old == TrackedOf(wtc[t], "node", n)
       IN  \E tc \in PutTracked(wtc[t], "node",
                                [old EXCEPT !.state = Value(STUB, v)]) :
               wtc' = [wtc EXCEPT ![t] = tc]
    /\ wmem' = [wmem EXCEPT ![t][n] = v]
    /\ wsteps' = wsteps + 1
    /\ UNCHANGED <<mainPc, listenerStarted, stopped, tasks, sockOpen, backlog,
                   listenerPc, cur, resp, status, taskExc, store, kind, wpc,
                   wni, closeCalls, sentLog, recvLog, flushFailed, caught,
                   rejected, replayed, conn, wsess, worph, wlisteners,
                   strayWait, straySent>>

\* the set listener on Task.status: ctx.task.status = v in the body of t
BodySetStatus(t, v) ==
    /\ InBody(t)
    /\ LET old == TrackedOf(wtc[t], "task", t)
       IN  \E tc \in PutTracked(wtc[t], "task",
                                [old EXCEPT !.state = Value(STUB, v)]) :
               wtc' = [wtc EXCEPT ![t] = tc]
    /\ wsteps' = wsteps + 1
    /\ UNCHANGED <<mainPc, listenerStarted, stopped, tasks, sockOpen, backlog,
                   listenerPc, cur, resp, status, taskExc, store, kind, wpc,
                   wni, closeCalls, sentLog, recvLog, flushFailed, caught,
                   rejected, replayed, conn, wsess, wmem, worph, wlisteners,
                   strayWait, straySent>>

\* the append listener (_register_append_to_attribute_listener): child c is
\* appended to node.attributes of node n; the listener appends its field map
\* to the list of the collection
BodyAppend(t, n, c) ==
    /\ InBody(t)
    /\ LET old == TrackedOf(wtc[t], "node", n)
       IN  \E tc \in PutTracked(wtc[t], "node",
                                [old EXCEPT !.attributes = Append(@, c)]) :
               wtc' = [wtc EXCEPT ![t] = tc]
    /\ wsteps' = wsteps + 1
    /\ UNCHANGED <<mainPc, listenerStarted, stopped, tasks, sockOpen, backlog,
                   listenerPc, cur, resp, status, taskExc, store, kind, wpc,
                   wni, closeCalls, sentLog, recvLog, flushFailed, caught,
                   rejected, replayed, conn, wsess, wmem, worph, wlisteners,
                   strayWait, straySent>>

\* _Messenger._send_message called with a type the executor has no handler
\* for
BodySendInvalid(t) ==
    /\ InBody(t)
    /\ sockOpen
    /\ wsteps' = wsteps + 1
    /\ Connect(t, "bogus", "none")
    /\ wpc' = [wpc EXCEPT ![t] = "invalid_wait"]
    /\ UNCHANGED <<mainPc, listenerStarted, stopped, tasks, sockOpen,
                   listenerPc, cur, resp, status, taskExc, store, kind, wtc,
                   wni, closeCalls, recvLog, flushFailed, caught, rejected,
                   replayed, conn, wsess, wmem, worph, wlisteners, strayWait,
                   straySent>>

\* the response to that message (lines 314-317): its exception is raised in
\* the body, which handles it (handled) or lets it reach the `except` of
\* _main
WorkerInvalidAnswered(t, handled) ==
    /\ wpc[t] = "invalid_wait"
    /\ resp[t] # "none"
    /\ resp' = [resp EXCEPT ![t] = "none"]
    /\ IF resp[t] = "ok"
       THEN /\ wpc' = [wpc EXCEPT ![t] = "body"]
            /\ UNCHANGED <<backlog, sentLog, caught, wsess, wlisteners>>
       ELSE IF handled
       THEN /\ wpc' = [wpc EXCEPT ![t] = "body"]
            /\ caught' = [caught EXCEPT ![t] = TRUE]
            /\ UNCHANGED <<backlog, sentLog, wsess, wlisteners>>
       ELSE /\ SendFailed(t, resp[t])
            /\ UNCHANGED caught
    /\ UNCHANGED <<mainPc, listenerStarted, stopped, tasks, sockOpen,
                   listenerPc, cur, status, taskExc, store, kind, wtc, wni,
                   wsteps, closeCalls, recvLog, flushFailed, rejected,
                   replayed, conn, wmem, worph, strayWait, straySent>>

\* the new instance listener (_register_new_instance_listener): a Log is
\* attached to the session
BodyNewLog(t) ==
    /\ InBody(t)
    /\ wni' = [wni EXCEPT ![t] = @ + 1]
    /\ wsess' = [wsess EXCEPT ![t] = @ + 1]
    /\ wsteps' = wsteps + 1
    /\ UNCHANGED <<mainPc, listenerStarted, stopped, tasks, sockOpen, backlog,
                   listenerPc, cur, resp, status, taskExc, store, kind, wpc,
                   wtc, closeCalls, sentLog, recvLog, flushFailed, caught,
                   rejected, replayed, conn, wmem, worph, wlisteners,
                   strayWait, straySent>>

\* patched_rollback, lines 341-343: session.rollback() in the body only
\* expunges the new instances from the session of the worker
BodyRollback(t) ==
    /\ InBody(t)
    /\ wsess' = [wsess EXCEPT ![t] = worph[t]]
    /\ wsteps' = wsteps + 1
    /\ UNCHANGED <<mainPc, listenerStarted, stopped, tasks, sockOpen, backlog,
                   listenerPc, cur, resp, status, taskExc, store, kind, wpc,
                   wtc, wni, closeCalls, sentLog, recvLog, flushFailed,
                   caught, rejected, replayed, conn, wmem, worph, wlisteners,
                   strayWait, straySent>>

\* patched_refresh, lines 332-334: session.refresh(node n) in the body.
\* instrument.clear(target) pops the entry of the node and empties the new
\* instances and their expunge queue (instrumentation.py, lines 202-211);
\* the refresh then reloads the node and fires the refresh listener
BodyRefresh(t, n) ==
    /\ InBody(t)
    /\ \E cleared \in Clear(wtc[t], "node", n) :
           \E tc \in PutTracked(cleared, "node",
                                Inst(n,
                                     Value(VersionStub, store.node[n].version),
                                     Value(store.node[n].state,
                                           store.node[n].state),
                                     <<>>)) :
               wtc' = [wtc EXCEPT ![t] = tc]
    /\ wmem' = [wmem EXCEPT ![t][n] = store.node[n].state]
    /\ wni' = [wni EXCEPT ![t] = NoInstances]
    /\ worph' = [worph EXCEPT ![t] = wsess[t]]
    /\ wsteps' = wsteps + 1
    /\ UNCHANGED <<mainPc, listenerStarted, stopped, tasks, sockOpen, backlog,
                   listenerPc, cur, resp, status, taskExc, store, kind, wpc,
                   closeCalls, sentLog, recvLog, flushFailed, caught,
                   rejected, replayed, conn, wsess, wlisteners, strayWait,
                   straySent>>

\* patched_commit, line 337: send the diff. Without a connection the error is
\* raised in the body, which handles it (handled) or lets it go
BodyCommit(t, handled) ==
    /\ InBody(t)
    /\ wsteps' = wsteps + 1
    /\ IF sockOpen
       THEN /\ Connect(t, "apply_tracked_changes", "none")
            /\ wpc' = [wpc EXCEPT ![t] = "flush_wait"]
            /\ UNCHANGED <<caught, wsess, wlisteners>>
       ELSE IF handled
       THEN /\ caught' = [caught EXCEPT ![t] = TRUE]
            /\ UNCHANGED <<backlog, sentLog, wpc, wsess, wlisteners>>
       ELSE /\ SendFailed(t, "conn_error")
            /\ UNCHANGED caught
    /\ UNCHANGED <<mainPc, listenerStarted, stopped, tasks, sockOpen,
                   listenerPc, cur, resp, status, taskExc, store, kind, wtc,
                   wni, closeCalls, recvLog, flushFailed, rejected, replayed,
                   conn, wmem, worph, strayWait, straySent>>

\* a messenger that does not look at the `exception` of the response: the
\* commit clears the diff and returns whatever the parent answered
WorkerFlushedIgnoresError(t, handled) ==
    /\ wpc[t] = "flush_wait"
    /\ resp[t] # "none"
    /\ resp' = [resp EXCEPT ![t] = "none"]
    /\ wtc' = [wtc EXCEPT ![t] = NoChanges]
    /\ wni' = [wni EXCEPT ![t] = NoInstances]
    /\ wsess' = [wsess EXCEPT ![t] = worph[t]]
    /\ wpc' = [wpc EXCEPT ![t] = "body"]
    /\ UNCHANGED <<mainPc, listenerStarted, stopped, tasks, sockOpen, backlog,
                   listenerPc, cur, status, taskExc, store, kind, wsteps,
                   closeCalls, sentLog, recvLog, flushFailed, caught,
                   rejected, replayed, conn, wmem, worph, wlisteners,
                   strayWait, straySent>>

\* the response to `apply_tracked_changes`: without an exception
\* patched_commit expunges and clears the diff (lines 338-339); with one,
\* _send_message raises it (line 317) inside the commit
WorkerFlushed(t, handled) ==
    /\ wpc[t] = "flush_wait"
    /\ resp[t] # "none"
    /\ resp' = [resp EXCEPT ![t] = "none"]
    /\ IF resp[t] = "ok"
       THEN /\ \E tc \in Clear(wtc[t], "node", NoTarget) :
                   wtc' = [wtc EXCEPT ![t] = tc]
            /\ wni' = [wni EXCEPT ![t] = NoInstances]
            /\ wsess' = [wsess EXCEPT ![t] = worph[t]]
            /\ wpc' = [wpc EXCEPT ![t] = "body"]
            /\ UNCHANGED <<backlog, sentLog, caught, wlisteners>>
       ELSE IF handled
       THEN /\ wpc' = [wpc EXCEPT ![t] = "body"]
            /\ caught' = [caught EXCEPT ![t] = TRUE]
            /\ UNCHANGED <<backlog, sentLog, wtc, wni, wsess, wlisteners>>
       ELSE /\ SendFailed(t, resp[t])
            /\ UNCHANGED <<wtc, wni, caught>>
    /\ UNCHANGED <<mainPc, listenerStarted, stopped, tasks, sockOpen,
                   listenerPc, cur, status, taskExc, store, kind, wsteps,
                   closeCalls, recvLog, flushFailed, rejected, replayed, conn,
                   wmem, worph, strayWait, straySent>>

\* the task body returns: messenger.succeeded (lines 390-391)
BodyReturn(t) ==
    /\ wpc[t] = "body"
    /\ SendInTry(t, "succeeded", "succeeded_wait")
    /\ UNCHANGED <<mainPc, listenerStarted, stopped, tasks, sockOpen,
                   listenerPc, cur, resp, status, taskExc, store, kind, wtc,
                   wni, wsteps, closeCalls, recvLog, flushFailed, caught,
                   rejected, replayed, conn, wmem, worph, strayWait,
                   straySent>>

\* the task body raises: messenger.failed (lines 392-395)
BodyRaise(t) ==
    /\ wpc[t] = "body"
    /\ SendFailed(t, "user_error")
    /\ UNCHANGED <<mainPc, listenerStarted, stopped, tasks, sockOpen,
                   listenerPc, cur, resp, status, taskExc, store, kind, wtc,
                   wni, wsteps, closeCalls, recvLog, flushFailed, caught,
                   rejected, replayed, conn, wmem, worph, strayWait,
                   straySent>>

\* the response to `succeeded`: the worker ends, or the exception of the
\* response is raised inside the `try` and reported with `failed`
WorkerSucceeded(t) ==
    /\ wpc[t] = "succeeded_wait"
    /\ resp[t] # "none"
    /\ resp' = [resp EXCEPT ![t] = "none"]
    /\ IF resp[t] = "ok"
       THEN /\ wpc' = [wpc EXCEPT ![t] = "exited"]
            /\ LeaveScope(t)
            /\ UNCHANGED <<backlog, sentLog>>
       ELSE SendFailed(t, resp[t])
    /\ UNCHANGED <<mainPc, listenerStarted, stopped, tasks, sockOpen,
                   listenerPc, cur, status, taskExc, store, kind, wtc, wni,
                   wsteps, closeCalls, recvLog, flushFailed, caught, rejected,
                   replayed, conn, wmem, worph, strayWait, straySent>>

\* the response to `failed`: the worker ends whatever the response holds.
\* _send_message raises the exception of the response (lines 315-317), here
\* inside the `except` of _main or after the one of the deserialization, so
\* it leaves _main
WorkerFailed(t) ==
    /\ wpc[t] = "failed_wait"
    /\ resp[t] # "none"
    /\ resp' = [resp EXCEPT ![t] = "none"]
    /\ wpc' = [wpc EXCEPT ![t] = IF resp[t] = "ok" THEN "exited"
                                 ELSE "crashed"]
    /\ LeaveScope(t)
    /\ UNCHANGED <<mainPc, listenerStarted, stopped, tasks, sockOpen, backlog,
                   listenerPc, cur, status, taskExc, store, kind, wtc, wni,
                   wsteps, closeCalls, sentLog, recvLog, flushFailed, caught,
                   rejected, replayed, conn, wmem, worph, strayWait,
                   straySent>>

----------------------------------------------------------------------------
Next ==
    \/ CtorReturn
    \/ \E t \in Tasks, k \in Kinds : Execute(t, k)
    \/ \E t \in Tasks : ExecuteSpawnFails(t)
    \/ \E t \in Tasks : ExecuteClosed(t)
    \/ CloseSetStopped
    \/ CloseSendClosed
    \/ CloseSocket
    \/ CloseJoin
    \/ CloseAgain
    \/ ListenerStart
    \/ ListenerCheck
    \/ ListenerAccept
    \/ ListenerHandle
    \/ ListenerClosed
    \/ \E t \in Tasks : WorkerStart(t)
    \/ \E t \in Tasks : WorkerStarted(t)
    \/ \E t \in Tasks : BodyLoad(t, NodeId)
    \/ \E t \in Tasks, v \in StateVals : BodySet(t, NodeId, v)
    \/ \E t \in Tasks : BodyNewLog(t)
    \/ \E t \in Tasks, handled \in BOOLEAN : BodyCommit(t, handled)
    \/ \E t \in Tasks, handled \in BOOLEAN : WorkerFlushed(t, handled)
    \/ \E t \in Tasks : BodyReturn(t)
    \/ \E t \in Tasks : BodyRaise(t)
    \/ \E t \in Tasks : WorkerSucceeded(t)
    \/ \E t \in Tasks : WorkerFailed(t)

Spec == Init /\ [][Next]_vars

----------------------------------------------------------------------------
(* One task whose body uses everything the instrumentation tracks *)

\* another user of the storage (the workflow engine in the parent process)
\* commits a change of node n: its version column advances
ParentWrites(n) ==
    /\ store.node[n].version < MaxVersion
    /\ store' = [store EXCEPT !.node[n].version = @ + 1]
    /\ UNCHANGED <<mainPc, listenerStarted, stopped, tasks, sockOpen, backlog,
                   listenerPc, cur, resp, status, taskExc, kind, wpc, wtc,
                   wni, wsteps, closeCalls, sentLog, recvLog, flushFailed,
                   caught, rejected, replayed, conn, wsess, wmem, worph,
                   wlisteners, strayWait, straySent>>

\* the task that is submitted
Solo == {t \in Tasks : \A u \in Tasks : t <= u}

NextOne ==
    \/ CtorReturn
    \/ \E t \in Solo : Execute(t, "ok")
    \/ ListenerStart
    \/ ListenerCheck
    \/ ListenerAccept
    \/ ListenerHandle
    \/ \E t \in Solo : WorkerStart(t)
    \/ \E t \in Solo : WorkerStarted(t)
    \/ \E t \in Solo, n \in Nodes : BodyLoad(t, n)
    \/ \E t \in Solo, n \in Nodes, v \in StateVals : BodySet(t, n, v)
    \/ \E t \in Solo, v \in StateVals : BodySetStatus(t, v)
    \/ \E t \in Solo, c \in AttrNames : BodyAppend(t, NodeId, c)
    \/ \E t \in Solo : BodyNewLog(t)
    \/ \E t \in Solo : BodyRollback(t)
    \/ \E t \in Solo : BodyRefresh(t, NodeId)
    \/ \E t \in Solo : BodySendInvalid(t)
    \/ \E t \in Solo, handled \in BOOLEAN : WorkerInvalidAnswered(t, handled)
    \/ \E t \in Solo, handled \in BOOLEAN : BodyCommit(t, handled)
    \/ \E t \in Solo, handled \in BOOLEAN : WorkerFlushed(t, handled)
    \/ \E t \in Solo : BodyReturn(t)
    \/ \E t \in Solo : BodyRaise(t)
    \/ \E t \in Solo : WorkerSucceeded(t)
    \/ \E t \in Solo : WorkerFailed(t)
    \/ ParentWrites(NodeId)

SpecOne == Init /\ [][NextOne]_vars

----------------------------------------------------------------------------
(* One task, close(), and messengers that are no worker of a registered task *)

\* the request types a foreign messenger sends: those of the handlers and one
\* the executor has no handler for
StrayTypes == {"started", "apply_tracked_changes", "succeeded", "failed",
               "bogus"}

\* the diff its messages carry: node.state of NodeId was set, one new instance
StrayChanges ==
    CHOOSE tc \in PutTracked(NoChanges, "node",
                             [NoInst(NodeId) EXCEPT
                                 !.state = Value(STUB, "a")]) : TRUE

\* _Messenger._send_message of a messenger built with task id t although no
\* worker of t runs (t was never submitted, or its worker has ended): it
\* connects and sends one request frame
StraySend(t, type) ==
    /\ sockOpen
    /\ strayWait = NoTask
    /\ straySent < MaxStray
    /\ wpc[t] \in Ended \/ t \notin Solo
    /\ resp[t] = "none"
    /\ backlog' = Append(backlog,
                         Request(type, t, StrayChanges, 1,
                                 IF type = "failed" THEN "user_error"
                                 ELSE "none"))
    /\ strayWait' = t
    /\ straySent' = straySent + 1
    /\ UNCHANGED <<mainPc, listenerStarted, stopped, tasks, sockOpen,
                   listenerPc, cur, resp, status, taskExc, store, kind, wpc,
                   wtc, wni, wsteps, closeCalls, sentLog, recvLog,
                   flushFailed, caught, rejected, replayed, conn, wsess, wmem,
                   worph, wlisteners>>

\* _Messenger._send_message, lines 314-319: that messenger read its response
\* and closed its socket
StrayAnswered ==
    /\ strayWait # NoTask
    /\ resp[strayWait] # "none"
    /\ resp' = [resp EXCEPT ![strayWait] = "none"]
    /\ strayWait' = NoTask
    /\ UNCHANGED <<mainPc, listenerStarted, stopped, tasks, sockOpen, backlog,
                   listenerPc, cur, status, taskExc, store, kind, wpc, wtc,
                   wni, wsteps, closeCalls, sentLog, recvLog, flushFailed,
                   caught, rejected, replayed, conn, wsess, wmem, worph,
                   wlisteners, straySent>>

NextStray ==
    \/ CtorReturn
    \/ \E t \in Solo : Execute(t, "ok")
    \/ CloseSetStopped
    \/ CloseSendClosed
    \/ CloseSocket
    \/ CloseJoin
    \/ ListenerStart
    \/ ListenerCheck
    \/ ListenerAccept
    \/ ListenerHandle
    \/ ListenerClosed
    \/ \E t \in Solo : WorkerStart(t)
    \/ \E t \in Solo : WorkerStarted(t)
    \/ \E t \in Solo : BodyLoad(t, NodeId)
    \/ \E t \in Solo, handled \in BOOLEAN : BodyCommit(t, handled)
    \/ \E t \in Solo, handled \in BOOLEAN : WorkerFlushed(t, handled)
    \/ \E t \in Solo : BodyReturn(t)
    \/ \E t \in Solo : WorkerSucceeded(t)
    \/ \E t \in Solo : WorkerFailed(t)
    \/ ParentWrites(NodeId)
    \/ \E t \in Tasks, type \in StrayTypes : StraySend(t, type)
    \/ StrayAnswered

SpecStray == Init /\ [][NextStray]_vars

----------------------------------------------------------------------------
(* One frame on one connection: _send_message, _recv_message, _recv_bytes *)

execVars == <<mainPc, listenerStarted, stopped, tasks, sockOpen, backlog,
              listenerPc, cur, resp, status, taskExc, store, kind, wpc, wtc,
              wni, wsteps, closeCalls, sentLog, recvLog, flushFailed, caught,
              rejected, replayed, wsess, wmem, worph, wlisteners, strayWait,
              straySent>>

\* the connection after `bytes` were written to it
Written(c, bytes) == [c EXCEPT !.wire = @ \o bytes, !.sent = @ \o bytes]

\* _send_message, lines 243-245: connection.send(msg_metadata), the first
\* bytes written on a connection opened for this one message
FrameSendPrefix ==
    /\ conn.wpos = "start"
    /\ conn' = [Written(conn, Pack(Len(Dumps(conn.message))))
                   EXCEPT !.wpos = "prefix_sent"]
    /\ UNCHANGED execVars

\* _send_message, line 246: connection.sendall(data)
FrameSendPayload ==
    /\ conn.wpos = "prefix_sent"
    /\ conn' = [Written(conn, Dumps(conn.message)) EXCEPT !.wpos = "sent"]
    /\ UNCHANGED execVars

\* the writing process ends or loses the connection, at any point of
\* _send_message; inside sendall, after n bytes of the payload
FramePeerGone(n) ==
    /\ conn.wpos \in {"start", "prefix_sent", "sent"}
    /\ n <= Len(Dumps(conn.message))
    /\ conn.wpos # "prefix_sent" => n = 0
    /\ conn' = [Written(conn, SubSeq(Dumps(conn.message), 1, n))
                   EXCEPT !.wpos = "closed", !.eof = TRUE]
    /\ UNCHANGED execVars

\* the writer goes on writing on the connection after its frame
FrameSendMore(b) ==
    /\ conn.wpos = "sent"
    /\ conn' = [Written(conn, <<b>>) EXCEPT !.wpos = "more"]
    /\ UNCHANGED execVars

\* a _recv_bytes whose recv takes whatever the connection holds
FrameRecvAll(k) ==
    /\ conn.rpc \in {"len", "payload"}
    /\ conn.count > 0
    /\ k \in 1..Len(conn.wire)
    /\ conn' = [conn EXCEPT !.result = @ \o SubSeq(conn.wire, 1, k),
                            !.wire = SubSeq(@, k + 1, Len(@)),
                            !.count = IF k < @ THEN @ - k ELSE 0]
    /\ UNCHANGED execVars

\* _recv_bytes, lines 264-268: read = connection.recv(count) returns k
\* bytes, at least one and at most count, of those the connection holds
FrameRecv(k) ==
    /\ conn.rpc \in {"len", "payload"}
    /\ conn.count > 0
    /\ k \in 1..Len(conn.wire)
    /\ k <= conn.count
    /\ conn' = [conn EXCEPT !.result = @ \o SubSeq(conn.wire, 1, k),
                            !.wire = SubSeq(@, k + 1, Len(@)),
                            !.count = @ - k]
    /\ UNCHANGED execVars

\* _recv_bytes returns: count is 0 (line 262), or recv returned nothing
\* because the other end is closed and all its bytes were read (line 265)
RecvBytesReturns ==
    \/ conn.count = 0
    \/ conn.wire = <<>> /\ conn.eof

\* _recv_message, lines 251-255: the first _recv_bytes returned; unpack the
\* length (struct.error unless there are _INT_SIZE bytes) and enter
\* _recv_bytes(connection, msg_metadata_len)
FrameUnpack ==
    /\ conn.rpc = "len"
    /\ RecvBytesReturns
    /\ conn' = IF Len(conn.result) = INT_SIZE
               THEN [conn EXCEPT !.prefix = conn.result,
                                 !.rpc = "payload",
                                 !.count = Unpack(conn.result),
                                 !.result = <<>>]
               ELSE [conn EXCEPT !.prefix = conn.result,
                                 !.rpc = "done",
                                 !.result = <<>>,
                                 !.out = Received("struct_error", NoRequest)]
    /\ UNCHANGED execVars

\* _recv_message, lines 255-256: the second _recv_bytes returned;
\* jsonpickle.loads(msg)
FrameLoads ==
    /\ conn.rpc = "payload"
    /\ RecvBytesReturns
    /\ conn' = [conn EXCEPT !.payload = conn.result,
                            !.rpc = "done",
                            !.result = <<>>,
                            !.out = Loads(conn.result)]
    /\ UNCHANGED execVars

\* a connection for each message, nothing written yet
InitFrame ==
    /\ InitExecutor
    /\ \E m \in FrameMessages : conn = NewConn(m)

NextFrame ==
    \/ FrameSendPrefix
    \/ FrameSendPayload
    \/ \E n \in 0..Len(Dumps(conn.message)) : FramePeerGone(n)
    \/ \E b \in 0..(ByteValues - 1) : FrameSendMore(b)
    \/ \E k \in 1..Len(conn.wire) : FrameRecv(k)
    \/ FrameUnpack
    \/ FrameLoads

SpecFrame == InitFrame /\ [][NextFrame]_vars

----------------------------------------------------------------------------
(* Properties *)

TerminalTypes == {"succeeded", "failed"}

\* number of terminal messages in a log
Terminals(log) == Cardinality({i \in 1..Len(log) : log[i] \in TerminalTypes})

\* a terminal message of t was handled: the task has a terminal status
Recorded(t) == status[t] \in TerminalTypes

IsPrefix(a, b) == Len(a) <= Len(b) /\ \A i \in 1..Len(a) : a[i] = b[i]

\* C1: for a task submitted to an executor that was not closed since, once
\* its worker has ended exactly one terminal message (succeeded or failed)
\* has been handled by the listener, it gave the task its terminal status,
\* and it is the last message handled for the task.
C1_ExactlyOneTerminal ==
    \A t \in Tasks :
        (wpc[t] \in Ended /\ ~stopped) =>
            /\ Terminals(recvLog[t]) = 1
            /\ recvLog[t][Len(recvLog[t])] \in TerminalTypes
            /\ Recorded(t)

\* C2: close() never stays blocked on the response to its own `closed`
\* message: there is no state in which close() waits for that response while
\* the listener thread has ended without writing it.
C2_CloseNeverBlocks ==
    ~(mainPc = "close_wait" /\ listenerPc = "done" /\ resp[NoTask] = "none")

\* started < apply_tracked_changes < succeeded, failed
Rank(type) ==
    CASE type = "started" -> 0
      [] type = "apply_tracked_changes" -> 1
      [] OTHER -> 2

\* a log in protocol order: ranks never decrease, and a flush comes after a
\* `started`
InOrder(log) ==
    /\ \A i, j \in 1..Len(log) : i < j => Rank(log[i]) <= Rank(log[j])
    /\ \A j \in 1..Len(log) :
           log[j] = "apply_tracked_changes" =>
               \E i \in 1..(j - 1) : log[i] = "started"
    /\ \A j \in 1..Len(log) : log[j] = "started" => j = 1

\* C3: per task, the messages its worker sends are in the order `started`,
\* then the `apply_tracked_changes`, then the terminal message, and the
\* listener dispatches them in the order they were sent.
C3_MessagesOrdered ==
    \A t \in Tasks :
        /\ InOrder(sentLog[t])
        /\ IsPrefix(recvLog[t], sentLog[t])

\* C3 witness: the listener handled a started, a flush and a terminal
\* message of one task
C3_Witness ==
    \E t \in Tasks :
        /\ Len(recvLog[t]) = 3
        /\ recvLog[t][1] = "started"
        /\ recvLog[t][2] = "apply_tracked_changes"
        /\ recvLog[t][3] \in TerminalTypes

\* the listener is handling a request of type `type` for task t in this step
Handling(t, type) ==
    /\ listenerPc = "handle"
    /\ listenerPc' = "loop"
    /\ cur.task_id = t
    /\ cur.type = type

\* the outcome of applying the diff of the request being handled
CurApply ==
    ApplyTrackedChanges(cur.tracked_changes, cur.new_instances, store)

\* the edges of the state machine of section 4.6 that messages drive
StartedEdge(t) ==
    status[t] = "submitted" /\ status'[t] = "running" /\ Handling(t, "started")

SucceededEdge(t) ==
    /\ status[t] = "running" /\ status'[t] = "succeeded"
    /\ Handling(t, "succeeded") /\ CurApply.ok

FailedEdge(t) ==
    /\ status[t] = "running" /\ status'[t] = "failed"
    /\ \/ Handling(t, "failed")
       \/ Handling(t, "succeeded") /\ ~CurApply.ok

\* submit gives the task its first status
SubmitEdge(t) == status[t] = "none" /\ status'[t] = "submitted"

\* C4 as stated: a task's status changes only along submitted -> running,
\* running -> succeeded and running -> failed, so no task becomes succeeded
\* or failed without having been running.
C4_OnlyThreeEdges ==
    [][\A t \in Tasks :
           status'[t] # status[t] =>
               SubmitEdge(t) \/ StartedEdge(t) \/ SucceededEdge(t)
                   \/ FailedEdge(t)]_vars

\* the edge the worker's `failed` drives when it is handled before any
\* `started` (lines 375-379: the context did not deserialize)
EarlyFailedEdge(t) ==
    /\ status[t] = "submitted" /\ status'[t] = "failed"
    /\ Handling(t, "failed")
    /\ recvLog[t] = <<>>

\* C4 amended: a task's status changes only along submitted -> running,
\* running -> succeeded, running -> failed, and submitted -> failed on a
\* `failed` message handled before any `started`; no task becomes succeeded
\* without having been running.
C4_StatusEdges ==
    [][\A t \in Tasks :
           status'[t] # status[t] =>
               SubmitEdge(t) \/ StartedEdge(t) \/ SucceededEdge(t)
                   \/ FailedEdge(t) \/ EarlyFailedEdge(t)]_vars

\* C4 witness: a task failed without ever having been running
C4_Witness ==
    \E t \in Tasks :
        /\ status[t] = "failed"
        /\ recvLog[t] = <<"failed">>
        /\ taskExc[t].exception = "deserialization_error"

\* C5: when the listener handles `succeeded` for a registered task it
\* removes the task and leaves the store as the applier left it; the task
\* becomes succeeded exactly when the apply raised nothing, and failed with
\* the apply error otherwise.
C5_SucceededHandler ==
    [][\A t \in Tasks :
           (Handling(t, "succeeded") /\ t \in tasks) =>
               /\ tasks' = tasks \ {t}
               /\ store' = CurApply.store
               /\ status'[t] = IF CurApply.ok THEN "succeeded" ELSE "failed"
               /\ CurApply.ok => taskExc'[t] = taskExc[t]
               /\ ~CurApply.ok => taskExc'[t].exception = CurApply.error]_vars

\* C5 witness: a task that sent `succeeded` was recorded failed with the
\* error of the apply
C5_Witness ==
    \E t \in Tasks :
        /\ recvLog[t] = <<"started", "succeeded">>
        /\ status[t] = "failed"
        /\ taskExc[t].exception = "version_conflict"
        /\ t \notin tasks

\* C6: when the listener handles `failed` for a registered task it removes
\* the task, leaves the store as the applier left it with the diff of the
\* message, and records the task failed: with the worker's exception and
\* traceback when the apply raised nothing, with the apply error carrying
\* the worker's exception as its cause otherwise.
C6_FailedHandler ==
    [][\A t \in Tasks :
           (Handling(t, "failed") /\ t \in tasks) =>
               /\ tasks' = tasks \ {t}
               /\ store' = CurApply.store
               /\ status'[t] = "failed"
               /\ CurApply.ok =>
                      taskExc'[t] = Failure(cur.exception, "none", "worker")
               /\ ~CurApply.ok =>
                      taskExc'[t] =
                          Failure(CurApply.error, cur.exception, "apply")]_vars

\* C6 witness: a body raised after changing the node, the diff was applied
\* and the task is failed with the body's exception
C6_Witness ==
    \E t \in Tasks :
        /\ status[t] = "failed"
        /\ taskExc[t] = Failure("user_error", "none", "worker")
        /\ store.node[NodeId].state \in StateVals
        /\ \A u \in Tasks \ {t} : recvLog[u] = <<>>

\* C7: handling `apply_tracked_changes` for a registered task leaves the
\* registry, every task status and every recorded failure unchanged, leaves
\* the store as the applier left it, and answers with the apply error when
\* the apply raised one.
C7_ApplyHandler ==
    [][\A t \in Tasks :
           (Handling(t, "apply_tracked_changes") /\ t \in tasks) =>
               /\ UNCHANGED <<tasks, status, taskExc>>
               /\ store' = CurApply.store
               /\ resp'[t] = IF CurApply.ok THEN "ok" ELSE CurApply.error]_vars

\* C7 witness: a worker waits in its commit and the response holds an apply
\* error, while its task is still registered and running
C7_Witness ==
    \E t \in Tasks :
        /\ wpc[t] = "flush_wait"
        /\ resp[t] = "version_conflict"
        /\ t \in tasks
        /\ status[t] = "running"

\* the worker of t exists and has not ended
WorkerAlive(t) == wpc[t] \notin {"none"} \cup Ended

\* the parent can still get a message for t: its worker lives and the
\* listener has not handled a terminal message of t
Expected(t) == WorkerAlive(t) /\ Terminals(recvLog[t]) = 0

\* C8: a task is in the registry exactly when the parent still expects
\* messages for it, in every reachable state.
C8_RegistryIffExpected ==
    \A t \in Tasks : t \in tasks <=> Expected(t)

C10_CloseIdempotent ==
    [][(mainPc = "ready" /\ stopped /\ closeCalls' # closeCalls) =>
           UNCHANGED <<mainPc, listenerStarted, stopped, tasks, sockOpen,
                       backlog, listenerPc, cur, resp, status, taskExc, store,
                       kind, wpc, wtc, wni, wsteps, sentLog, recvLog,
                       flushFailed, caught>>]_vars

\* C10 witness: close() was called again after a close() that returned
C10_Witness ==
    /\ closeCalls = 2
    /\ stopped
    /\ mainPc = "ready"
    /\ listenerPc = "done"

\* C11: a submit on a closed executor raises at once and has no other
\* effect: the task is not added to the registry, no arguments are handed to
\* a worker and no worker is spawned; and once the executor is stopped no
\* step registers a task or spawns a worker.
C11_SubmitOnClosed ==
    [][/\ rejected' # rejected =>
            /\ stopped
            /\ \E t \in Tasks \ rejected : rejected' = rejected \cup {t}
            /\ UNCHANGED <<tasks, status, kind, wpc, backlog, sentLog, store>>
       /\ stopped =>
            /\ tasks' \subseteq tasks
            /\ \A t \in Tasks : wpc[t] = "none" => wpc'[t] = "none"]_vars

\* a task was submitted to the closed executor while another one is done
C11_Witness ==
    /\ rejected # {}
    /\ stopped
    /\ \E t \in Tasks : status[t] = "none" /\ wpc[t] = "none" /\ t \notin tasks
    /\ \E t \in Tasks : status[t] = "succeeded"

\* the request types the executor has a handler for (lines 81-86)
KnownTypes == {"started", "succeeded", "failed", "apply_tracked_changes"}

\* C12: a request whose type is not a known one is answered with a response
\* that holds an exception, the messenger of the sender raises it, and on the
\* parent no status, no registry entry and nothing in the store changes; the
\* listener goes back to its loop.
C12_UnknownType ==
    [][/\ (/\ listenerPc = "handle" /\ listenerPc' # "handle"
           /\ cur.type \notin KnownTypes \cup {"closed"})
            => /\ resp'[cur.task_id] = "invalid_request_type"
               /\ UNCHANGED <<tasks, status, taskExc, store, stopped>>
               /\ listenerPc' = "loop"
       /\ \A t \in Tasks :
            (wpc[t] = "invalid_wait" /\ wpc'[t] # "invalid_wait")
            => /\ resp[t] = "invalid_request_type"
               /\ \/ wpc'[t] = "body" /\ caught'[t]
                  \/ /\ wpc'[t] = "failed_wait"
                     /\ backlog' = Append(backlog,
                            Request("failed", t, wtc[t], wni[t], resp[t]))]_vars

\* the task sent a request of unknown type, the error ended its body, and
\* the listener went on to handle the `failed` message that followed
C12_Witness ==
    \E t \in Tasks :
        /\ recvLog[t] = <<"started", "bogus", "failed">>
        /\ status[t] = "failed"
        /\ taskExc[t].exception = "invalid_request_type"
        /\ listenerPc = "accept"

\* C13: the listener loop ends only on a `closed` message or on closure of
\* the listen socket; in particular no error of an iteration ends it, the
\* listener goes on to accept the next connection.
C13_LoopEndsOnClosedOnly ==
    [][(listenerPc # "done" /\ listenerPc' = "done")
          => \/ listenerPc = "handle" /\ cur.type = "closed"
             \/ ~sockOpen]_vars

\* C14: the store changes only in a step of the listener that applies the
\* diff of the request it handles, as one whole apply on the store the
\* previous apply left; so the diffs of the workers are applied one after the
\* other, and at any time the store is the initial store with the applied
\* diffs on it, in the order of their applies.
C14_SerialApplies ==
    [][/\ store' # store =>
            /\ listenerPc = "handle" /\ listenerPc' = "loop"
            /\ cur.type \in ApplyTypes
            /\ cur.task_id \in tasks
            /\ store' = CurApply.store
       /\ store' = replayed']_vars

\* both tasks ended and the diff of each changed the node
C14_Witness ==
    /\ \A t \in Tasks : status[t] = "succeeded"
    /\ store.node[NodeId].version = 3
    /\ store # InitialStore
    /\ \A t \in Tasks : recvLog[t] = <<"started", "succeeded">>

\* the listener is about to apply the diff of the request it read
Applying ==
    /\ listenerPc = "handle"
    /\ cur.type \in ApplyTypes
    /\ cur.task_id \in tasks

\* the steps of kind op among the events of an apply
Steps(events, op) == SelectSeq(events, LAMBDA e : e.op = op)

\* C15: one apply call constructs and persists every entry of new_instances
\* exactly once, whatever tracked_changes holds (nothing, one model, more
\* than one model).
C15_NewInstancesOnce ==
    Applying =>
        /\ Len(Steps(CurApply.events, "put")) = cur.new_instances
        /\ CurApply.store.logs = store.logs + cur.new_instances

\* the steps of an apply that give a diff of tracked_changes to an entity
Assigns(events) == SelectSeq(events, LAMBDA e : e.op \in {"assign", "insert"})

\* in events every put comes before every assignment, and an assignment is
\* made only after n puts
PutsFirst(events, n) ==
    \A j \in 1..Len(events) :
        events[j].op \in {"assign", "insert"} =>
            /\ \A k \in j..Len(events) : events[k].op # "put"
            /\ Len(Steps(SubSeq(events, 1, j), "put")) = n

\* C16: within one apply call all new instances are persisted before any
\* scalar or collection diff of tracked_changes is given to an entity.
C16_NewInstancesFirst ==
    Applying => PutsFirst(CurApply.events, cur.new_instances)

\* an apply that persists a new instance and assigns a scalar
C16_Witness ==
    /\ Applying
    /\ CurApply.ok
    /\ Len(Steps(CurApply.events, "put")) > 0
    /\ Len(Assigns(CurApply.events)) > 0

\* the entities of model m in the diff of the request being handled
DiffInstances(m) ==
    LET i == ModelIdx(cur.tracked_changes, m)
    IN  IF i = 0 THEN {}
        ELSE {cur.tracked_changes[i].instances[j] :
                 j \in 1..Len(cur.tracked_changes[i].instances)}

\* the nodes of the diff whose version the worker captured when it loaded
\* them, and whose persisted version is another one by now
Advanced ==
    {e \in DiffInstances("node") :
        e.version.tracked /\ e.version.current # store.node[e.id].version}

\* C17: an apply of a diff with an entity whose persisted version advanced
\* since the worker loaded it fails with a version conflict; an apply of a
\* diff without such an entity does not fail with a version conflict.
C17_VersionCheck ==
    Applying =>
        IF Advanced # {} THEN CurApply.error = "version_conflict"
        ELSE CurApply.error # "version_conflict"

\* C18: when the apply of a request ends in a version conflict, the store
\* keeps no mutation of that diff (no new instance, no update of another
\* entity of the diff), and a terminal request records the task as failed
\* with the version-conflict error.
C18_ConflictLeavesNothing ==
    [][(Applying /\ listenerPc' = "loop"
        /\ CurApply.error = "version_conflict")
          => /\ store' = store
             /\ cur.type \in TerminalTypes =>
                   /\ status'[cur.task_id] = "failed"
                   /\ taskExc'[cur.task_id].exception = "version_conflict"]_vars

\* the assignments of attr the apply makes for entity id of model m
AssignsOf(m, id, attr) ==
    SelectSeq(CurApply.events,
              LAMBDA e : e.op = "assign" /\ e.model = m /\ e.id = id
                         /\ e.attr = attr)

\* the apply fetched entity id of model m
Fetched(m, id) ==
    \E k \in 1..Len(CurApply.events) :
        LET e == CurApply.events[k]
        IN  e.op = "get" /\ e.model = m /\ e.id = id

\* C19: for a scalar of the diff whose initial equals its current the applier
\* makes no assignment; for every entity it fetched it assigns current once,
\* exactly when initial differs from current.
C19_AssignIffChanged ==
    Applying =>
        \A m \in {"node", "task"} : \A e \in DiffInstances(m) :
            \A attr \in {"version", "state"} :
                Len(AssignsOf(m, e.id, attr)) =
                    IF Fetched(m, e.id) /\ e[attr].tracked
                       /\ e[attr].initial # e[attr].current
                    THEN 1 ELSE 0

\* an apply of a diff with a loaded, unchanged state (no assignment) next to
\* a scalar that is assigned
C19_Witness ==
    /\ Applying
    /\ CurApply.ok
    /\ \E e \in DiffInstances("node") :
           /\ e.state.tracked /\ e.state.initial = e.state.current
           /\ Len(AssignsOf("node", e.id, "state")) = 0
           /\ Len(AssignsOf("node", e.id, "version")) = 1
    /\ \E e \in DiffInstances("node") :
           /\ e.state.tracked /\ e.state.initial # e.state.current
           /\ Len(AssignsOf("node", e.id, "state")) = 1

\* the children the apply inserts for node id, in the order of the inserts
InsertsOf(id) ==
    LET ins == SelectSeq(CurApply.events,
                         LAMBDA e : e.op = "insert" /\ e.model = "node"
                                    /\ e.id = id)
    IN  [k \in 1..Len(ins) |-> ins[k].attr]

\* the apply updated node id through the model api of the nodes
Updated(id) ==
    \E k \in 1..Len(CurApply.events) :
        LET e == CurApply.events[k]
        IN  e.op = "update" /\ e.mapi = "node" /\ e.id = id

\* the list the worker of t holds for the collection of node n
Appended(tc, n) == TrackedOf(tc, "node", n).attributes

\* C20: the list of a collection in the diff holds the children in the order
\* the worker appended them (it only grows at its end until it is cleared),
\* and the applier inserts the children of the list into the collection of
\* the parent entity in the order of the list: what it inserts is the list,
\* and for every node it updates, the collection afterwards is the one
\* before with the list behind it.
C20_AppendOrder ==
    [][/\ \A t \in Tasks, n \in Nodes :
            Appended(wtc'[t], n) # Appended(wtc[t], n) =>
                \/ Appended(wtc'[t], n) = <<>>
                \/ \E c \in AttrNames :
                       Appended(wtc'[t], n) = Append(Appended(wtc[t], n), c)
       /\ Applying =>
            \A e \in DiffInstances("node") :
                /\ InsertsOf(e.id) \in {e.attributes, <<>>}
                /\ Updated(e.id) => InsertsOf(e.id) = e.attributes
       /\ (Applying /\ listenerPc' = "loop") =>
            \A e \in DiffInstances("node") :
                Updated(e.id) =>
                    store'.node[e.id].attributes =
                        store.node[e.id].attributes \o e.attributes]_vars

\* the body appended y and then x to the collection of a node, and the
\* applied diff left them in the node's collection in that order
C20_Witness ==
    \E t \in Tasks, n \in Nodes :
        /\ status[t] = "succeeded"
        /\ store.node[n].attributes = <<"y", "x">>

\* C21: every task that ended failed has a traceback string recorded with
\* its exception, whichever way it failed (worker exception, `succeeded`
\* whose apply fails, `failed` whose apply fails, deserialization failure).
C21_TracebackRetained ==
    \A t \in Tasks :
        status[t] = "failed" => taskExc[t].traceback # "none"

C23_SubmitAfterListenerReady ==
    (\/ mainPc # "ctor"
     \/ tasks # {}
     \/ rejected # {}
     \/ \E t \in Tasks : wpc[t] # "none" \/ status[t] # "none")
        => listenerPc # "init"

\* a task was submitted and its worker spawned while the listener, which
\* has put its signal, has not yet accepted anything
C23_Witness ==
    \E t \in Tasks :
        /\ wpc[t] = "spawned"
        /\ listenerPc = "loop"
        /\ ~listenerStarted
        /\ \A u \in Tasks : recvLog[u] = <<>>

C25_SameModelStore ==
    Applying =>
        /\ \A i \in 1..Len(CurApply.events) :
               CurApply.events[i].op # "put" =>
                   CurApply.events[i].mapi = CurApply.events[i].model
        /\ \A m \in {"node", "task"} : \A e \in DiffInstances(m) :
               Len(SelectSeq(CurApply.events,
                             LAMBDA s : /\ s.op = "get"
                                        /\ s.model = m
                                        /\ s.id = e.id)) <= 1

StateOf(tc, n) == TrackedOf(tc, "node", n).state

\* C27 as the specification states it: an assignment of node.state keeps as
\* `initial` of the recorded Value the value first observed for the
\* attribute (the one captured at load, if there is one) and takes the new
\* value as `current`.
C27_KeepsFirstObserved ==
    [][\A t \in Tasks, n \in Nodes, v \in StateVals :
         BodySet(t, n, v) =>
             /\ StateOf(wtc'[t], n).current = v
             /\ StateOf(wtc[t], n).tracked =>
                  StateOf(wtc'[t], n).initial =
                      StateOf(wtc[t], n).initial]_vars

\* C27: an assignment of node.state records Value(_STUB, new value) in place
\* of whatever was tracked for the attribute, the value captured at load
\* included, and leaves the rest of the entity's entry as it was; so an
\* assigned attribute always counts as changed, also when it is assigned the
\* value it had at load.
C27_SetRecordsStub ==
    [][\A t \in Tasks :
         (wpc[t] = "body" /\ wtc'[t] # wtc[t]) =>
             \A n \in Nodes :
                 LET v == wmem'[t][n]
                 IN  BodySet(t, n, v) =>
                         /\ StateOf(wtc'[t], n) = Value(STUB, v)
                         /\ Assigned(StateOf(wtc'[t], n))
                         /\ TrackedOf(wtc'[t], "node", n) =
                                [TrackedOf(wtc[t], "node", n)
                                    EXCEPT !.state = Value(STUB, v)]]_vars

\* a worker loaded the node when its state was "a" (version 2) and assigned
\* "a" to it
C27_Witness ==
    \E t \in Tasks :
        LET e == TrackedOf(wtc[t], "node", NodeId)
        IN  /\ e.version = Value(VersionStub, 2)
            /\ store.node[NodeId].state = "a"
            /\ e.state = Value(STUB, "a")

\* C28: a load or refresh event of a node captures the state of the node as
\* a Value only when no Value is tracked for it yet, and then sets the
\* attribute of the object to the tracked current value; so, until the diff
\* is cleared, reading the state of a node the worker assigned gives the
\* value it assigned last.
C28_LoadKeepsPendingWrite ==
    [][/\ \A t \in Tasks, n \in Nodes :
            BodyLoad(t, n) =>
                /\ StateOf(wtc[t], n).tracked =>
                       StateOf(wtc'[t], n) = StateOf(wtc[t], n)
                /\ ~StateOf(wtc[t], n).tracked =>
                       StateOf(wtc'[t], n) = Value(store.node[n].state,
                                                   store.node[n].state)
                /\ wmem'[t][n] = StateOf(wtc'[t], n).current
       /\ \A t \in Tasks, n \in Nodes :
            StateOf(wtc'[t], n).tracked =>
                wmem'[t][n] = StateOf(wtc'[t], n).current]_vars

\* the worker assigned "a" to the state of a node whose row still says
\* "init", a load event of the node followed or came before (its version is
\* captured), and the node object reads "a"
C28_Witness ==
    \E t \in Tasks, n \in Nodes :
        /\ StateOf(wtc[t], n) = Value(STUB, "a")
        /\ TrackedOf(wtc[t], "node", n).version.tracked
        /\ store.node[n].state = InitialState
        /\ wmem[t][n] = "a"

\* C29: session.refresh of a node in the worker drops the tracked changes
\* of that node and of nothing else: what is tracked for every other entity
\* stays, and so do the new instances waiting to be sent.
C29_RefreshClearsTargetOnly ==
    [][\A t \in Tasks, n \in Nodes :
         BodyRefresh(t, n) =>
             /\ \A m \in Nodes \ {n} :
                    TrackedOf(wtc'[t], "node", m) = TrackedOf(wtc[t], "node", m)
             /\ TrackedOf(wtc'[t], "task", t) = TrackedOf(wtc[t], "task", t)
             /\ wni'[t] = wni[t]]_vars

\* C30: once the context of a task is deserialized no exception leaves the
\* entry point of its worker: whatever is raised by the body, by `started`
\* or by the send of `succeeded` is reported with a `failed` message and the
\* worker returns, also when the parent answers `failed` with an exception.
C30_NothingEscapes ==
    \A t \in Tasks :
        kind[t] # "bad_ctx" => wpc[t] # "crashed"

\* C31: however the instrumentation scope of a worker is left (the body
\* returned, the body raised, the send of the terminal message raised), the
\* expunge has run, so that no instance of the expunge queue is attached to
\* the session, and the listeners the instrumentation installed are removed.
C31_ScopeLeft ==
    \A t \in Tasks :
        wpc[t] \in Ended =>
            /\ ~wlisteners[t]
            /\ wsess[t] = worph[t]

\* a worker that created a new instance ended on an exception of its
\* `failed` send, after `started` was handled: the instance is expunged and
\* the listeners are gone
C31_Witness ==
    \E t \in Tasks :
        /\ wpc[t] = "crashed"
        /\ recvLog[t] # <<>>
        /\ wni[t] = 1
        /\ wsess[t] = 0
        /\ ~wlisteners[t]

\* C32: when the listener is done with a request it has read, the client of
\* that connection had no response before and has one now, no other client
\* got one, and the connection is gone; this holds when the handler returned,
\* when the handling raised (no handler for the type, no task of that id)
\* and for `closed`. The response carries an exception exactly when the
\* handling raised or the apply of an `apply_tracked_changes` request failed.
C32_OneResponse ==
    [][listenerPc = "handle" /\ listenerPc' # "handle" =>
          LET c == cur.task_id
              raised == /\ cur.type # "closed"
                        /\ \/ cur.type \notin ApplyTypes \cup {"started"}
                           \/ c \notin tasks
              applyFailed ==
                  /\ cur.type = "apply_tracked_changes"
                  /\ c \in tasks
                  /\ ~ApplyTrackedChanges(cur.tracked_changes,
                                          cur.new_instances, store).ok
          IN  /\ resp[c] = "none"
              /\ resp'[c] # "none"
              /\ \A d \in Clients \ {c} : resp'[d] = resp[d]
              /\ resp'[c] # "ok" <=> raised \/ applyFailed
              /\ cur' = NoRequest]_vars

C32_Witness ==
    /\ listenerPc = "done"
    /\ resp[NoTask] = "ok"
    /\ \E t \in Tasks :
           /\ flushFailed[t]
           /\ \E i \in 1..Len(recvLog[t]) : recvLog[t][i] = "succeeded"
    /\ \E t \in Tasks :
           \E i \in 1..Len(recvLog[t]) : recvLog[t][i] = "bogus"

\* C33: when the listener handles a `started`, `apply_tracked_changes`,
\* `succeeded` or `failed` request whose task id is not in the registry, no
\* task status and no recorded failure changes, the registry and the store
\* stay as they are, and the response carries an exception.
C33_UnknownTaskRejected ==
    [][/\ listenerPc = "handle"
       /\ listenerPc' # "handle"
       /\ cur.type \in ApplyTypes \cup {"started"}
       /\ cur.task_id \notin tasks
       => /\ status' = status
          /\ taskExc' = taskExc
          /\ tasks' = tasks
          /\ store' = store
          /\ resp'[cur.task_id] \notin {"none", "ok"}]_vars

\* a second terminal message for a task that has succeeded was answered: the
\* task is still succeeded and the new instance of the message is not stored
C33_Witness ==
    \E t \in Tasks :
        /\ strayWait = t
        /\ resp[t] = "key_error"
        /\ status[t] = "succeeded"
        /\ recvLog[t][Len(recvLog[t])] = "failed"
        /\ store.logs = 0

\* C34: once close() has returned, no step changes the status or the
\* recorded failure of a task, the registry or the store, whatever the
\* workers that still run try to send.
C34_NothingHandledAfterClose ==
    [][stopped /\ mainPc = "ready" =>
          /\ status' = status
          /\ taskExc' = taskExc
          /\ tasks' = tasks
          /\ store' = store]_vars

\* close() has returned; a worker that had sent `started` and changed a node
\* could connect for neither `succeeded` nor `failed`: its task is running
\* and registered for good, its diff is not in the store
C34_Witness ==
    \E t \in Tasks :
        /\ stopped
        /\ mainPc = "ready"
        /\ wpc[t] = "crashed"
        /\ sentLog[t] = <<"started">>
        /\ wtc[t] # NoChanges
        /\ status[t] = "running"
        /\ t \in tasks
        /\ store = InitialStore
====
